---- MODULE Spec2Model ----
(***************************************************************************)
(* Access-control core of heracles-core (src/heracles-core/src/acl):       *)
(* permission bitmaps, attribute filters, the ACL compiler and the         *)
(* evaluator (UserAcl).                                                    *)
(*                                                                         *)
(* Representation.                                                         *)
(*  - A String is a sequence of one-character strings; "a,x" is            *)
(*    <<"a", ",", "x">>.  Comparison of strings is comparison of           *)
(*    sequences; to_ascii_lowercase maps every character.                  *)
(*  - Strings the code only compares for exact equality (object types,     *)
(*    actions, rule types) are TLA+ strings.                               *)
(*  - A PermissionBitmap (u128) is the set of its set bit positions,       *)
(*    a subset of 0..127; an i64 half is the set of the set bit positions  *)
(*    of its two's-complement pattern, a subset of 0..63.                  *)
(*  - Option<T> is a sequence: <<>> is None, <<v>> is Some(v).             *)
(*  - A HashMap is a function whose DOMAIN is the key set.                 *)
(***************************************************************************)
EXTENDS Integers, Sequences, FiniteSets, TLC

VARIABLES
    pc,        \* "load": rows are being fetched; "ready": the UserAcl is built;
               \* "returned": a query on it has returned
    user_dn,   \* the principal's DN, as authored
    rows,      \* the AclRow sequence fetched so far
    ctor,      \* how acl was built and the arguments UserAcl::new was given
    acl,       \* the UserAcl of the session
    call,      \* the query made on acl
    ret,       \* what the query returned
    attr_filter,   \* an AttributeFilter held by a caller (self of its methods)
    other_filter,  \* a second AttributeFilter, passed by shared reference
    bitmap,        \* a PermissionBitmap held by a caller (self of its methods)
    other_bitmap   \* a second PermissionBitmap, passed by value

vars ==
    <<pc, user_dn, rows, ctor, acl, call, ret, attr_filter, other_filter, bitmap,
      other_bitmap>>

(***************************************************************************)
(* Strings                                                                 *)
(***************************************************************************)
UpperChars == <<"A","B","C","D","E","F","G","H","I","J","K","L","M",
                "N","O","P","Q","R","S","T","U","V","W","X","Y","Z">>

LowerChars == <<"a","b","c","d","e","f","g","h","i","j","k","l","m",
                "n","o","p","q","r","s","t","u","v","w","x","y","z">>

\* The lower-case letter of every ASCII upper-case letter.
LowerOfUpper ==
    [c \in {UpperChars[i] : i \in DOMAIN UpperChars} |->
        LowerChars[CHOOSE i \in DOMAIN UpperChars : UpperChars[i] = c]]

char_to_ascii_lowercase(c) ==
    IF c \in DOMAIN LowerOfUpper THEN LowerOfUpper[c] ELSE c

to_ascii_lowercase(s) == [i \in 1..Len(s) |-> char_to_ascii_lowercase(s[i])]

eq_ignore_ascii_case(s, t) == to_ascii_lowercase(s) = to_ascii_lowercase(t)

ends_with(s, suffix) ==
    /\ Len(suffix) <= Len(s)
    /\ SubSeq(s, Len(s) - Len(suffix) + 1, Len(s)) = suffix

(***************************************************************************)
(* PermissionBitmap (bitmap.rs)                                            *)
(***************************************************************************)
BitWidth == 128

HalfWidth == 64

EMPTY == {}

\* u8: the type of a bit position argument.
U8 == 0..255

\* The outcome of a call that returns or panics.
Returns(value) == [kind |-> "value", value |-> value]

Panics(message) == [kind |-> "panic", message |-> message]

\* Mutant: positions past the width are ignored, as set_bit ignores them.
from_bit_ignoring_range(pos) ==
    IF pos < BitWidth THEN Returns({pos}) ELSE Returns(EMPTY)

\* assert!(pos < 128, ...); Self { bits: 1u128 << pos }
from_bit(pos) ==
    IF ~(pos < BitWidth)
    THEN Panics("bit position must be 0-127")
    ELSE Returns({pos})

\* The sign of an i64, given as the set of the one bits of its two's
\* complement pattern.
i64_is_negative(half) == (HalfWidth - 1) \in half

\* `x >> 64` on a u128.
shr_64(bits) == {b - HalfWidth : b \in bits \cap (HalfWidth..(BitWidth - 1))}

\* `x as u64` on a u128: truncation to the low 64 bits.
u128_as_u64(bits) == bits \cap (0..(HalfWidth - 1))

\* Mutant: the halves cast to u128 directly, which sign-extends them.
from_halves_sign_extended(low, high) ==
    low \cup (IF (HalfWidth - 1) \in low THEN HalfWidth..(BitWidth - 1) ELSE {})
        \cup {b + HalfWidth : b \in high}

from_halves(low, high) == low \cup {b + HalfWidth : b \in high}

to_halves(self) == <<u128_as_u64(self), u128_as_u64(shr_64(self))>>

has(self, required) == (self \cap required) = required

has_any(self, required) == (self \cap required) # {}

union(self, other) == self \cup other

intersection(self, other) == self \cap other

\* Mutant: exclusive or in place of and-not.
subtract_as_xor(self, other) == (self \ other) \cup (other \ self)

subtract(self, other) == self \cap ((0..(BitWidth - 1)) \ other)

is_empty(self) == self = {}

(***************************************************************************)
(* AttributeFilter / ObjectAttributeAcl (attributes.rs)                    *)
(***************************************************************************)
None == <<>>

Some(v) == <<v>>

LowerSet(S) == {to_ascii_lowercase(s) : s \in S}

AttributeFilter_new(allowed, denied) ==
    [allowed |-> IF allowed = None THEN None ELSE Some(LowerSet(allowed[1])),
     denied  |-> LowerSet(denied)]

allow_all == [allowed |-> None, denied |-> {}]

deny_all == [allowed |-> Some({}), denied |-> {}]

\* with_allowed / with_denied collect the lower-cased items of an iterator
\* into a HashSet: attrs is the set of the items.
with_allowed(attrs) == [allowed |-> Some(LowerSet(attrs)), denied |-> {}]

with_denied(attrs) == [allowed |-> None, denied |-> LowerSet(attrs)]

\* Mutant: the whitelist consulted before the denied set.
is_attribute_permitted_allow_first(self, attr) ==
    LET attr_lower == to_ascii_lowercase(attr)
    IN  IF self.allowed # None /\ attr_lower \in self.allowed[1]
        THEN TRUE
        ELSE IF attr_lower \in self.denied
             THEN FALSE
             ELSE self.allowed = None

is_attribute_permitted(self, attr) ==
    LET attr_lower == to_ascii_lowercase(attr)
    IN  IF attr_lower \in self.denied
        THEN FALSE
        ELSE IF self.allowed = None
             THEN TRUE
             ELSE attr_lower \in self.allowed[1]

\* Mutant: the permitted names returned in their lower-case form.
AttributeFilter_filter_attributes_lowercased(self, attrs) ==
    LET kept == SelectSeq(attrs, LAMBDA attr : is_attribute_permitted(self, attr))
    IN  [i \in DOMAIN kept |-> to_ascii_lowercase(kept[i])]

\* AttributeFilter::filter_attributes: iter().copied().filter(..).collect()
AttributeFilter_filter_attributes(self, attrs) ==
    SelectSeq(attrs, LAMBDA attr : is_attribute_permitted(self, attr))

\* Mutant: a whitelist met by an unrestricted filter is dropped.
merge_unrestricted_wins(self, other) ==
    [denied  |-> self.denied \cup other.denied,
     allowed |-> IF self.allowed # None /\ other.allowed # None
                 THEN Some(self.allowed[1] \cup other.allowed[1])
                 ELSE None]

merge(self, other) ==
    [denied  |-> self.denied \cup other.denied,
     allowed |-> IF self.allowed # None /\ other.allowed # None
                 THEN Some(self.allowed[1] \cup other.allowed[1])
                 ELSE IF self.allowed # None
                      THEN self.allowed
                      ELSE IF other.allowed # None
                           THEN other.allowed
                           ELSE None]

\* Mutant: the clone returned without the merge.
merged_without_merge(self, other) == self

\* let mut result = self.clone(); result.merge(other); result
merged(self, other) == merge(self, other)

\* Mutant: a name added to the whitelist is taken off the denied set.
add_allowed_clears_denied(self, attrs) ==
    [allowed |-> IF self.allowed # None
                 THEN Some(self.allowed[1] \cup LowerSet(attrs))
                 ELSE Some(LowerSet(attrs)),
     denied  |-> self.denied \ LowerSet(attrs)]

add_allowed(self, attrs) ==
    [self EXCEPT !.allowed = IF self.allowed # None
                             THEN Some(self.allowed[1] \cup LowerSet(attrs))
                             ELSE Some(LowerSet(attrs))]

add_denied(self, attrs) ==
    [self EXCEPT !.denied = self.denied \cup LowerSet(attrs)]

ObjectAttributeAcl_allow_all == [read |-> allow_all, write |-> allow_all]

ObjectAttributeAcl_merge(self, other) ==
    [read  |-> merge(self.read, other.read),
     write |-> merge(self.write, other.write)]

(***************************************************************************)
(* ScopedEntry (engine.rs)                                                 *)
(***************************************************************************)
Comma == <<",">>

\* Mutant: the suffix test made without the leading comma.
matches_no_comma(self, target_dn_lower, user_dn_lower, is_self) ==
    IF self.self_only /\ ~is_self
    THEN FALSE
    ELSE IF self.subtree
         THEN IF self.dn_lower = <<>>
              THEN TRUE
              ELSE \/ target_dn_lower = self.dn_lower
                   \/ ends_with(target_dn_lower, self.dn_lower)
         ELSE target_dn_lower = self.dn_lower

\* Mutant: the self_only flag not consulted.
matches_without_self_only(self, target_dn_lower, user_dn_lower, is_self) ==
    IF self.subtree
    THEN IF self.dn_lower = <<>>
         THEN TRUE
         ELSE \/ target_dn_lower = self.dn_lower
              \/ ends_with(target_dn_lower, Comma \o self.dn_lower)
    ELSE target_dn_lower = self.dn_lower

matches(self, target_dn_lower, user_dn_lower, is_self) ==
    IF self.self_only /\ ~is_self
    THEN FALSE
    ELSE IF self.subtree
         THEN IF self.dn_lower = <<>>
              THEN TRUE
              ELSE \/ target_dn_lower = self.dn_lower
                   \/ ends_with(target_dn_lower, Comma \o self.dn_lower)
         ELSE target_dn_lower = self.dn_lower

(***************************************************************************)
(* UserAcl construction (engine.rs)                                        *)
(***************************************************************************)
I16Min == -32768

I16Max == 32767

\* Mutant: the keys compared as unsigned 16-bit values.
key_le_unsigned(p, q) == (p % 65536) <= (q % 65536)

\* Ordering of two i16 sort keys: Ord for i16 is the signed comparison.
key_le(p, q) == p <= q

\* Mutant: an unstable insertion, e going before the elements of equal key.
sort_insert_unstable(sorted, e) ==
    LET k == Cardinality({i \in DOMAIN sorted : sorted[i].priority < e.priority})
    IN  SubSeq(sorted, 1, k) \o <<e>> \o SubSeq(sorted, k + 1, Len(sorted))

\* One insertion of the stable sort: e goes after every element whose key
\* is not greater than its own.
sort_insert(sorted, e) ==
    LET k == Cardinality({i \in DOMAIN sorted : key_le(sorted[i].priority, e.priority)})
    IN  SubSeq(sorted, 1, k) \o <<e>> \o SubSeq(sorted, k + 1, Len(sorted))

RECURSIVE sort_from(_, _)
sort_from(sorted, rest) ==
    IF rest = <<>>
    THEN sorted
    ELSE sort_from(sort_insert(sorted, Head(rest)), Tail(rest))

\* Mutant: the entries left in input order.
sort_by_key_skipped(scoped) == scoped

\* slice::sort_by_key(|e| e.priority): a stable sort.
sort_by_key(scoped) == sort_from(<<>>, scoped)

\* Mutant: user_dn_lower kept as authored.
UserAcl_new_dn_not_folded(dn, global_allow, global_deny, global_attr_acls, scoped) ==
    [user_dn          |-> dn,
     user_dn_lower    |-> dn,
     global_allow     |-> global_allow,
     global_deny      |-> global_deny,
     global_attr_acls |-> global_attr_acls,
     scoped           |-> sort_by_key(scoped)]

UserAcl_new(dn, global_allow, global_deny, global_attr_acls, scoped) ==
    [user_dn          |-> dn,
     user_dn_lower    |-> to_ascii_lowercase(dn),
     global_allow     |-> global_allow,
     global_deny      |-> global_deny,
     global_attr_acls |-> global_attr_acls,
     scoped           |-> sort_by_key(scoped)]

EmptyMap == [k \in {} |-> ObjectAttributeAcl_allow_all]

UserAcl_empty(dn) == UserAcl_new(dn, EMPTY, EMPTY, EmptyMap, <<>>)

(***************************************************************************)
(* Evaluation (engine.rs)                                                  *)
(***************************************************************************)
\* UserAcl::user_dn
UserAcl_user_dn(self) == self.user_dn

is_self(self, target_dn) == to_ascii_lowercase(target_dn) = self.user_dn_lower

\* Mutant: a matching entry always adds its bits, deny or not.
apply_entry_union_only(effective, entry, target_lower, user_dn_lower, self_flag) ==
    IF matches(entry, target_lower, user_dn_lower, self_flag)
    THEN union(effective, entry.permissions)
    ELSE effective

\* One iteration of the loop over self.scoped.
apply_entry(effective, entry, target_lower, user_dn_lower, self_flag) ==
    IF matches(entry, target_lower, user_dn_lower, self_flag)
    THEN IF entry.deny
         THEN subtract(effective, entry.permissions)
         ELSE union(effective, entry.permissions)
    ELSE effective

RECURSIVE effective_loop(_, _, _, _, _)
effective_loop(effective, scoped, target_lower, user_dn_lower, self_flag) ==
    IF scoped = <<>>
    THEN effective
    ELSE effective_loop(
             apply_entry(effective, Head(scoped), target_lower, user_dn_lower, self_flag),
             Tail(scoped), target_lower, user_dn_lower, self_flag)

\* Mutant: the global deny bitmap joined to the global allow bitmap.
effective_permissions_global_union(self, target_dn) ==
    LET target_lower == to_ascii_lowercase(target_dn)
        self_flag    == target_lower = self.user_dn_lower
    IN  effective_loop(union(self.global_allow, self.global_deny),
                       self.scoped, target_lower, self.user_dn_lower, self_flag)

effective_permissions(self, target_dn) ==
    LET target_lower == to_ascii_lowercase(target_dn)
        self_flag    == target_lower = self.user_dn_lower
    IN  effective_loop(subtract(self.global_allow, self.global_deny),
                       self.scoped, target_lower, self.user_dn_lower, self_flag)

\* Mutant: the action compared ignoring ASCII case.
select_filter_any_case(obj_acl, action) ==
    IF action \in {"write", "WRITE", "Write"} THEN obj_acl.write ELSE obj_acl.read

\* The filter of an ObjectAttributeAcl that a query action selects.
select_filter(obj_acl, action) ==
    IF action = "write" THEN obj_acl.write ELSE obj_acl.read

\* Mutant: an allow entry takes the names it whitelists out of the denied set,
\* as an allow entry re-grants permission bits.
RECURSIVE resolve_for_type_loop_regranting(_, _, _, _, _, _, _)
resolve_for_type_loop_regranting(filter, scoped, target_lower, user_dn_lower, self_flag, object_type, action) ==
    IF scoped = <<>>
    THEN filter
    ELSE LET entry == Head(scoped)
             next  ==
                 IF /\ matches(entry, target_lower, user_dn_lower, self_flag)
                    /\ object_type \in DOMAIN entry.attr_acls
                 THEN LET entry_filter == select_filter(entry.attr_acls[object_type], action)
                          joined       == merge(filter, entry_filter)
                      IN  IF entry.deny
                          THEN add_denied(filter, entry_filter.denied)
                          ELSE IF entry_filter.allowed = None
                               THEN joined
                               ELSE [joined EXCEPT !.denied = @ \ entry_filter.allowed[1]]
                 ELSE filter
         IN  resolve_for_type_loop_regranting(next, Tail(scoped), target_lower,
                                              user_dn_lower, self_flag, object_type, action)

RECURSIVE resolve_for_type_loop(_, _, _, _, _, _, _)
resolve_for_type_loop(filter, scoped, target_lower, user_dn_lower, self_flag, object_type, action) ==
    IF scoped = <<>>
    THEN filter
    ELSE LET entry == Head(scoped)
             next  ==
                 IF /\ matches(entry, target_lower, user_dn_lower, self_flag)
                    /\ object_type \in DOMAIN entry.attr_acls
                 THEN LET entry_filter == select_filter(entry.attr_acls[object_type], action)
                      IN  IF entry.deny
                          THEN add_denied(filter, entry_filter.denied)
                          ELSE merge(filter, entry_filter)
                 ELSE filter
         IN  resolve_for_type_loop(next, Tail(scoped), target_lower, user_dn_lower,
                                   self_flag, object_type, action)

\* Mutant: the read filters used whatever the action.
resolve_attr_filter_for_type_read_only(self, target_dn, object_type, action) ==
    LET target_lower == to_ascii_lowercase(target_dn)
        self_flag    == target_lower = self.user_dn_lower
        start        == IF object_type \in DOMAIN self.global_attr_acls
                        THEN self.global_attr_acls[object_type].read
                        ELSE allow_all
    IN  resolve_for_type_loop(start, self.scoped, target_lower, self.user_dn_lower,
                              self_flag, object_type, "read")

resolve_attr_filter_for_type(self, target_dn, object_type, action) ==
    LET target_lower == to_ascii_lowercase(target_dn)
        self_flag    == target_lower = self.user_dn_lower
        start        == IF object_type \in DOMAIN self.global_attr_acls
                        THEN select_filter(self.global_attr_acls[object_type], action)
                        ELSE allow_all
    IN  resolve_for_type_loop(start, self.scoped, target_lower, self.user_dn_lower,
                              self_flag, object_type, action)

\* resolve_attr_filter takes, for a matching deny entry, the element that
\* HashSet::iter().next() yields: any one element of the denied set, the
\* iteration order of a HashSet being unspecified.  The operator is the set
\* of the filters the call can return.
RECURSIVE resolve_loop(_, _, _, _, _, _)
resolve_loop(filter, scoped, target_lower, user_dn_lower, self_flag, object_type) ==
    IF scoped = <<>>
    THEN {filter}
    ELSE LET entry == Head(scoped)
             nexts ==
                 IF /\ matches(entry, target_lower, user_dn_lower, self_flag)
                    /\ object_type \in DOMAIN entry.attr_acls
                 THEN LET obj_acl == entry.attr_acls[object_type]
                      IN  IF entry.deny
                          THEN IF obj_acl.read.denied = {}
                               THEN {filter}
                               ELSE {add_denied(filter, {d}) : d \in obj_acl.read.denied}
                          ELSE {merge(filter, obj_acl.read)}
                 ELSE {filter}
         IN  UNION {resolve_loop(f, Tail(scoped), target_lower, user_dn_lower,
                                 self_flag, object_type) : f \in nexts}

resolve_attr_filter(self, target_dn, object_type) ==
    LET target_lower == to_ascii_lowercase(target_dn)
        self_flag    == target_lower = self.user_dn_lower
        start        == IF object_type \in DOMAIN self.global_attr_acls
                        THEN self.global_attr_acls[object_type].read
                        ELSE allow_all
    IN  resolve_loop(start, self.scoped, target_lower, self.user_dn_lower,
                     self_flag, object_type)

\* Mutant: evaluate starting from global_allow, global_deny not subtracted.
evaluate_allowed_no_global_deny(self, target_dn, required) ==
    IF is_empty(required)
    THEN TRUE
    ELSE LET target_lower == to_ascii_lowercase(target_dn)
             self_flag    == target_lower = self.user_dn_lower
             effective    == effective_loop(self.global_allow,
                                            self.scoped, target_lower,
                                            self.user_dn_lower, self_flag)
         IN  has(effective, required)

\* The allowed flag of the verdict of evaluate.
evaluate_allowed(self, target_dn, required) ==
    IF is_empty(required)
    THEN TRUE
    ELSE LET target_lower == to_ascii_lowercase(target_dn)
             self_flag    == target_lower = self.user_dn_lower
             effective    == effective_loop(subtract(self.global_allow, self.global_deny),
                                            self.scoped, target_lower,
                                            self.user_dn_lower, self_flag)
         IN  has(effective, required)

\* The verdicts evaluate can return (one per outcome of resolve_attr_filter).
evaluate(self, target_dn, required) ==
    {[allowed |-> evaluate_allowed(self, target_dn, required), attr_filter |-> f] :
        f \in resolve_attr_filter(self, target_dn, "")}

check(self, target_dn, required) ==
    \A verdict \in evaluate(self, target_dn, required) : verdict.allowed

check_attribute(self, target_dn, required, object_type, action, attribute) ==
    IF ~check(self, target_dn, required)
    THEN FALSE
    ELSE is_attribute_permitted(
             resolve_attr_filter_for_type(self, target_dn, object_type, action),
             attribute)

\* UserAcl::filter_attributes
filter_attributes(self, target_dn, required, object_type, action, attributes) ==
    IF ~check(self, target_dn, required)
    THEN <<>>
    ELSE AttributeFilter_filter_attributes(
             resolve_attr_filter_for_type(self, target_dn, object_type, action),
             attributes)

(***************************************************************************)
(* Queries in progress on a shared &UserAcl (engine.rs)                    *)
(*                                                                         *)
(* A query is split at its reads of the shared value: the reads of the     *)
(* global fields when it starts and one read of self.scoped per iteration  *)
(* of its loops.  The loops of evaluate and of the two resolve functions   *)
(* visit the same entries in the same order and are stepped together.      *)
(* Each operator gives the shared value as the step leaves it along with   *)
(* the locals of the caller.                                               *)
(***************************************************************************)
IdleFrame ==
    [at |-> "idle", index |-> 0, target_lower |-> <<>>, is_self |-> FALSE,
     effective |-> EMPTY, filter |-> allow_all, exposed |-> allow_all, value |-> FALSE]

\* The locals after the reads that precede the loops.
call_begin(self, c) ==
    LET target_lower == to_ascii_lowercase(c.target)
    IN  [acl   |-> self,
         frame |-> [at           |-> "loop",
                    index        |-> IF c.op = "is_self" THEN Len(self.scoped) + 1 ELSE 1,
                    target_lower |-> target_lower,
                    is_self      |-> target_lower = self.user_dn_lower,
                    effective    |-> subtract(self.global_allow, self.global_deny),
                    filter       |-> IF c.object_type \in DOMAIN self.global_attr_acls
                                     THEN select_filter(self.global_attr_acls[c.object_type],
                                                        c.action)
                                     ELSE allow_all,
                    exposed      |-> IF "" \in DOMAIN self.global_attr_acls
                                     THEN self.global_attr_acls[""].read
                                     ELSE allow_all,
                    value        |-> FALSE]]

\* Mutant: the running bitmap memoized in the shared value.
call_step_memoized(self, c, frame) ==
    LET entry     == self.scoped[frame.index]
        effective == apply_entry(frame.effective, entry, frame.target_lower,
                                 self.user_dn_lower, frame.is_self)
    IN  {[acl   |-> [self EXCEPT !.global_allow = effective],
          frame |-> [frame EXCEPT
                        !.index = @ + 1,
                        !.effective = effective,
                        !.filter = resolve_for_type_loop(@, <<entry>>, frame.target_lower,
                                                         self.user_dn_lower, frame.is_self,
                                                         c.object_type, c.action),
                        !.exposed = exposed]] :
            exposed \in resolve_loop(frame.exposed, <<entry>>, frame.target_lower,
                                     self.user_dn_lower, frame.is_self, "")}

\* One iteration over self.scoped: the outcomes it can have.
call_step(self, c, frame) ==
    LET entry == self.scoped[frame.index]
    IN  {[acl   |-> self,
          frame |-> [frame EXCEPT
                        !.index = @ + 1,
                        !.effective = apply_entry(@, entry, frame.target_lower,
                                                  self.user_dn_lower, frame.is_self),
                        !.filter = resolve_for_type_loop(@, <<entry>>, frame.target_lower,
                                                         self.user_dn_lower, frame.is_self,
                                                         c.object_type, c.action),
                        !.exposed = exposed]] :
            exposed \in resolve_loop(frame.exposed, <<entry>>, frame.target_lower,
                                     self.user_dn_lower, frame.is_self, "")}

\* The value the query returns once its loops are over.
call_return(c, frame) ==
    LET allowed == is_empty(c.required) \/ has(frame.effective, c.required)
    IN  CASE c.op = "check" -> allowed
          [] c.op = "evaluate" -> [allowed |-> allowed, attr_filter |-> frame.exposed]
          [] c.op = "check_attribute" ->
                allowed /\ is_attribute_permitted(frame.filter, c.attribute)
          [] c.op = "filter_attributes" ->
                IF ~allowed
                THEN <<>>
                ELSE AttributeFilter_filter_attributes(frame.filter, c.attributes)
          [] c.op = "effective_permissions" -> frame.effective
          [] c.op = "is_self" -> frame.is_self

(***************************************************************************)
(* Serialization (serde derives, serde_json)                               *)
(***************************************************************************)
\* Result::Ok and Result::Err
Ok(value) == [kind |-> "ok", value |-> value]

Err(error) == [kind |-> "err", error |-> error]

\* A JSON value: "null", "bool", "number", "string", "array" (a sequence of
\* values) or "object" (a sequence of <<key, value>> members in the order
\* written).  A number is written as an integer numeral, modelled by its sign
\* and the set of the one bits of its magnitude.
Json(kind, value) == [json |-> kind, value |-> value]

\* The items of a HashSet or the keys of a HashMap in the order its iterator
\* yields them: one order per state of the hasher.
RECURSIVE hash_iter_from(_)
hash_iter_from(S) ==
    IF S = {}
    THEN <<>>
    ELSE LET x == CHOOSE x \in S : TRUE IN <<x>> \o hash_iter_from(S \ {x})

hash_iter(S, hasher) ==
    LET items == hash_iter_from(S)
    IN  IF hasher = 0 THEN items ELSE [i \in DOMAIN items |-> items[Len(items) + 1 - i]]

\* The one bits of a natural number below 2^16, and the number they spell.
magnitude_bits(n) == {i \in 0..15 : (n \div (2 ^ i)) % 2 = 1}

RECURSIVE magnitude_of(_)
magnitude_of(bits) ==
    IF bits = {} THEN 0 ELSE LET i == CHOOSE i \in bits : TRUE
                             IN  (2 ^ i) + magnitude_of(bits \ {i})

serialize_i16(n) ==
    Json("number", [negative |-> n < 0, bits |-> magnitude_bits(IF n < 0 THEN -n ELSE n)])

serialize_PermissionBitmap(self) ==
    Json("object", << <<"bits", Json("number", [negative |-> FALSE, bits |-> self])>> >>)

serialize_HashSet(S, hasher) ==
    LET items == hash_iter(S, hasher)
    IN  Json("array", [i \in DOMAIN items |-> Json("string", items[i])])

serialize_AttributeFilter(self, hasher) ==
    Json("object",
         << <<"allowed", IF self.allowed = None
                         THEN Json("null", {})
                         ELSE serialize_HashSet(self.allowed[1], hasher)>>,
            <<"denied", serialize_HashSet(self.denied, hasher)>> >>)

serialize_ObjectAttributeAcl(self, hasher) ==
    Json("object",
         << <<"read", serialize_AttributeFilter(self.read, hasher)>>,
            <<"write", serialize_AttributeFilter(self.write, hasher)>> >>)

serialize_HashMap(map, hasher) ==
    LET keys == hash_iter(DOMAIN map, hasher)
    IN  Json("object",
             [i \in DOMAIN keys |->
                 <<keys[i], serialize_ObjectAttributeAcl(map[keys[i]], hasher)>>])

serialize_ScopedEntry(self, hasher) ==
    Json("object",
         << <<"dn_lower", Json("string", self.dn_lower)>>,
            <<"subtree", Json("bool", self.subtree)>>,
            <<"self_only", Json("bool", self.self_only)>>,
            <<"deny", Json("bool", self.deny)>>,
            <<"priority", serialize_i16(self.priority)>>,
            <<"permissions", serialize_PermissionBitmap(self.permissions)>>,
            <<"attr_acls", serialize_HashMap(self.attr_acls, hasher)>> >>)

serialize_UserAcl(self, hasher) ==
    Json("object",
         << <<"user_dn", Json("string", self.user_dn)>>,
            <<"user_dn_lower", Json("string", self.user_dn_lower)>>,
            <<"global_allow", serialize_PermissionBitmap(self.global_allow)>>,
            <<"global_deny", serialize_PermissionBitmap(self.global_deny)>>,
            <<"global_attr_acls", serialize_HashMap(self.global_attr_acls, hasher)>>,
            <<"scoped", Json("array", [i \in DOMAIN self.scoped |->
                                          serialize_ScopedEntry(self.scoped[i], hasher)])>> >>)

\* PyUserAcl::to_json: serde_json::to_string(&self.inner)
to_json(self, hasher) == Ok(serialize_UserAcl(self, hasher))

Malformed == Err("Deserialization failed")

\* The results are all Ok.
all_ok(results) == \A i \in DOMAIN results : results[i].kind = "ok"

\* The member of a JSON object a derived Deserialize reads a field from; a
\* field the object lacks is "missing", one it repeats is "duplicate".
member(j, name) ==
    IF j.json # "object"
    THEN Json("missing", {})
    ELSE LET at == {i \in DOMAIN j.value : j.value[i][1] = name}
         IN  IF at = {}
             THEN Json("missing", {})
             ELSE IF Cardinality(at) > 1
                  THEN Json("duplicate", {})
                  ELSE j.value[CHOOSE i \in at : TRUE][2]

deserialize_String(j) == IF j.json = "string" THEN Ok(j.value) ELSE Malformed

deserialize_bool(j) == IF j.json = "bool" THEN Ok(j.value) ELSE Malformed

\* Mutant: the numeral read as a u64, numbers past it out of range.
deserialize_u128_through_u64(j) ==
    IF j.json = "number" /\ ~j.value.negative /\ j.value.bits \subseteq 0..(HalfWidth - 1)
    THEN Ok(j.value.bits)
    ELSE Malformed

deserialize_u128(j) ==
    IF j.json = "number" /\ ~j.value.negative /\ j.value.bits \subseteq 0..(BitWidth - 1)
    THEN Ok(j.value.bits)
    ELSE Malformed

deserialize_i16(j) ==
    IF j.json = "number" /\ j.value.bits \subseteq 0..15
    THEN LET n == IF j.value.negative
                  THEN -magnitude_of(j.value.bits)
                  ELSE magnitude_of(j.value.bits)
         IN  IF I16Min <= n /\ n <= I16Max THEN Ok(n) ELSE Malformed
    ELSE Malformed

deserialize_PermissionBitmap(j) == deserialize_u128(member(j, "bits"))

deserialize_HashSet(j) ==
    IF j.json = "array" /\ \A i \in DOMAIN j.value : j.value[i].json = "string"
    THEN Ok({j.value[i].value : i \in DOMAIN j.value})
    ELSE Malformed

\* A missing Option field reads as None.
deserialize_Option_HashSet(j) ==
    IF j.json \in {"null", "missing"}
    THEN Ok(None)
    ELSE LET set == deserialize_HashSet(j)
         IN  IF set.kind = "ok" THEN Ok(Some(set.value)) ELSE set

deserialize_AttributeFilter(j) ==
    LET allowed == deserialize_Option_HashSet(member(j, "allowed"))
        denied  == deserialize_HashSet(member(j, "denied"))
    IN  IF all_ok(<<allowed, denied>>)
        THEN Ok([allowed |-> allowed.value, denied |-> denied.value])
        ELSE Malformed

deserialize_ObjectAttributeAcl(j) ==
    LET read  == deserialize_AttributeFilter(member(j, "read"))
        write == deserialize_AttributeFilter(member(j, "write"))
    IN  IF all_ok(<<read, write>>)
        THEN Ok([read |-> read.value, write |-> write.value])
        ELSE Malformed

\* A repeated key keeps the value inserted last.
deserialize_HashMap(j) ==
    IF j.json # "object"
    THEN Malformed
    ELSE LET values == [i \in DOMAIN j.value |->
                           deserialize_ObjectAttributeAcl(j.value[i][2])]
             last(key) == CHOOSE i \in DOMAIN j.value :
                             /\ j.value[i][1] = key
                             /\ \A k \in DOMAIN j.value : j.value[k][1] = key => k <= i
         IN  IF all_ok(values)
             THEN Ok([key \in {j.value[i][1] : i \in DOMAIN j.value} |->
                         values[last(key)].value])
             ELSE Malformed

deserialize_ScopedEntry(j) ==
    LET dn_lower    == deserialize_String(member(j, "dn_lower"))
        subtree     == deserialize_bool(member(j, "subtree"))
        self_only   == deserialize_bool(member(j, "self_only"))
        deny        == deserialize_bool(member(j, "deny"))
        priority    == deserialize_i16(member(j, "priority"))
        permissions == deserialize_PermissionBitmap(member(j, "permissions"))
        attr_acls   == deserialize_HashMap(member(j, "attr_acls"))
    IN  IF all_ok(<<dn_lower, subtree, self_only, deny, priority, permissions, attr_acls>>)
        THEN Ok([dn_lower    |-> dn_lower.value,
                 subtree     |-> subtree.value,
                 self_only   |-> self_only.value,
                 deny        |-> deny.value,
                 priority    |-> priority.value,
                 permissions |-> permissions.value,
                 attr_acls   |-> attr_acls.value])
        ELSE Malformed

deserialize_Vec_ScopedEntry(j) ==
    IF j.json # "array"
    THEN Malformed
    ELSE LET entries == [i \in DOMAIN j.value |-> deserialize_ScopedEntry(j.value[i])]
         IN  IF all_ok(entries)
             THEN Ok([i \in DOMAIN entries |-> entries[i].value])
             ELSE Malformed

\* The derived Deserialize of UserAcl fills the fields as read: neither
\* UserAcl::new nor its sort runs.
deserialize_UserAcl(j) ==
    LET dn               == deserialize_String(member(j, "user_dn"))
        dn_lower         == deserialize_String(member(j, "user_dn_lower"))
        global_allow     == deserialize_PermissionBitmap(member(j, "global_allow"))
        global_deny      == deserialize_PermissionBitmap(member(j, "global_deny"))
        global_attr_acls == deserialize_HashMap(member(j, "global_attr_acls"))
        scoped           == deserialize_Vec_ScopedEntry(member(j, "scoped"))
    IN  IF all_ok(<<dn, dn_lower, global_allow, global_deny, global_attr_acls, scoped>>)
        THEN Ok([user_dn          |-> dn.value,
                 user_dn_lower    |-> dn_lower.value,
                 global_allow     |-> global_allow.value,
                 global_deny      |-> global_deny.value,
                 global_attr_acls |-> global_attr_acls.value,
                 scoped           |-> scoped.value])
        ELSE Malformed

\* PyUserAcl::from_json: serde_json::from_str(json)
from_json(json) == deserialize_UserAcl(json)

(***************************************************************************)
(* Compiler (compiler.rs)                                                  *)
(***************************************************************************)
Subtree == <<"s","u","b","t","r","e","e">>

Base == <<"b","a","s","e">>

\* Mutant: an allow rule replaces the whitelist built so far.
build_attr_filter_step_last_allow_wins(acc, rule) ==
    IF rule.rule_type = "allow"
    THEN [acc EXCEPT !.allowed =
              Some({to_ascii_lowercase(rule.attributes[i]) : i \in DOMAIN rule.attributes})]
    ELSE IF rule.rule_type = "deny"
         THEN [acc EXCEPT !.denied =
                   acc.denied \cup {to_ascii_lowercase(rule.attributes[i]) :
                                       i \in DOMAIN rule.attributes}]
         ELSE acc

\* Fold of build_attr_filter over the rules of one (object_type, action)
\* group: acc is [allowed, denied].
build_attr_filter_step(acc, rule) ==
    IF rule.rule_type = "allow"
    THEN LET attrs == {to_ascii_lowercase(rule.attributes[i]) : i \in DOMAIN rule.attributes}
         IN  [acc EXCEPT !.allowed = IF acc.allowed = None
                                     THEN Some(attrs)
                                     ELSE Some(acc.allowed[1] \cup attrs)]
    ELSE IF rule.rule_type = "deny"
         THEN [acc EXCEPT !.denied =
                   acc.denied \cup {to_ascii_lowercase(rule.attributes[i]) :
                                       i \in DOMAIN rule.attributes}]
         ELSE acc

RECURSIVE build_attr_filter_loop(_, _)
build_attr_filter_loop(acc, rules) ==
    IF rules = <<>>
    THEN acc
    ELSE build_attr_filter_loop(build_attr_filter_step(acc, Head(rules)), Tail(rules))

build_attr_filter(rules) ==
    LET acc == build_attr_filter_loop([allowed |-> None, denied |-> {}], rules)
    IN  AttributeFilter_new(acc.allowed, acc.denied)

\* grouped[(object_type, action)]: the rules with that key, in input order.
RECURSIVE group_of(_, _, _)
group_of(rules, object_type, action) ==
    IF rules = <<>>
    THEN <<>>
    ELSE IF Head(rules).object_type = object_type /\ Head(rules).action = action
         THEN <<Head(rules)>> \o group_of(Tail(rules), object_type, action)
         ELSE group_of(Tail(rules), object_type, action)

\* Mutant: every action other than "write" sets the read side.
build_attr_acls_unknown_as_read(rules) ==
    [object_type \in {rules[i].object_type : i \in DOMAIN rules} |->
        LET not_write == SelectSeq(rules, LAMBDA r : r.object_type = object_type
                                                       /\ r.action # "write")
        IN  [read  |-> IF not_write # <<>> THEN build_attr_filter(not_write) ELSE allow_all,
             write |-> IF group_of(rules, object_type, "write") # <<>>
                       THEN build_attr_filter(group_of(rules, object_type, "write"))
                       ELSE allow_all]]

\* Every (object_type, action) key of grouped makes an entry for its object
\* type (allow_all on both sides) and sets the read or the write side when
\* the action is "read" or "write"; the keys are distinct, so the order in
\* which the HashMap is iterated does not show in the result.
build_attr_acls(rules) ==
    [object_type \in {rules[i].object_type : i \in DOMAIN rules} |->
        [read  |-> IF group_of(rules, object_type, "read") # <<>>
                   THEN build_attr_filter(group_of(rules, object_type, "read"))
                   ELSE allow_all,
         write |-> IF group_of(rules, object_type, "write") # <<>>
                   THEN build_attr_filter(group_of(rules, object_type, "write"))
                   ELSE allow_all]]

merge_global_attr_acls_allow(global, new) ==
    [obj_type \in DOMAIN global \cup DOMAIN new |->
        IF obj_type \in DOMAIN new
        THEN IF obj_type \in DOMAIN global
             THEN ObjectAttributeAcl_merge(global[obj_type], new[obj_type])
             ELSE new[obj_type]
        ELSE global[obj_type]]

\* Mutant: the filters of a global deny row merged like those of an allow row.
merge_global_attr_acls_deny_as_allow(global, deny_acls) ==
    [obj_type \in DOMAIN global \cup DOMAIN deny_acls |->
        IF obj_type \in DOMAIN deny_acls
        THEN IF obj_type \in DOMAIN global
             THEN ObjectAttributeAcl_merge(global[obj_type], deny_acls[obj_type])
             ELSE deny_acls[obj_type]
        ELSE global[obj_type]]

merge_global_attr_acls_deny(global, deny_acls) ==
    [obj_type \in DOMAIN global \cup DOMAIN deny_acls |->
        LET global_acl == IF obj_type \in DOMAIN global
                          THEN global[obj_type]
                          ELSE ObjectAttributeAcl_allow_all
        IN  IF obj_type \in DOMAIN deny_acls
            THEN [read  |-> add_denied(global_acl.read, deny_acls[obj_type].read.denied),
                  write |-> add_denied(global_acl.write, deny_acls[obj_type].write.denied)]
            ELSE global_acl]

\* Mutant: every row with an empty scope_dn taken as global.
is_global_row_scope_only(row) == row.scope_dn = <<>>

\* compiler.rs:97: the row is a global assignment.
is_global_row(row) == row.scope_dn = <<>> /\ ~row.self_only

\* Mutant: every scope_type other than "base" taken as subtree.
scoped_entry_of_subtree_unless_base(row) ==
    [dn_lower    |-> to_ascii_lowercase(row.scope_dn),
     subtree     |-> ~eq_ignore_ascii_case(row.scope_type, Base),
     self_only   |-> row.self_only,
     deny        |-> row.deny,
     priority    |-> row.priority,
     permissions |-> from_halves(row.perm_low, row.perm_high),
     attr_acls   |-> build_attr_acls(row.attr_rules)]

\* compiler.rs:110-118: the ScopedEntry pushed for a row.
scoped_entry_of(row) ==
    [dn_lower    |-> to_ascii_lowercase(row.scope_dn),
     subtree     |-> eq_ignore_ascii_case(row.scope_type, Subtree),
     self_only   |-> row.self_only,
     deny        |-> row.deny,
     priority    |-> row.priority,
     permissions |-> from_halves(row.perm_low, row.perm_high),
     attr_acls   |-> build_attr_acls(row.attr_rules)]

\* One iteration of the loop of compile over the rows.
compile_step(st, row) ==
    LET permissions == from_halves(row.perm_low, row.perm_high)
        attr_acls   == build_attr_acls(row.attr_rules)
    IN  IF is_global_row(row)
        THEN IF row.deny
             THEN [st EXCEPT !.global_deny = union(st.global_deny, permissions),
                             !.global_attr_acls =
                                 merge_global_attr_acls_deny(st.global_attr_acls, attr_acls)]
             ELSE [st EXCEPT !.global_allow = union(st.global_allow, permissions),
                             !.global_attr_acls =
                                 merge_global_attr_acls_allow(st.global_attr_acls, attr_acls)]
        ELSE [st EXCEPT !.scoped_entries = Append(st.scoped_entries, scoped_entry_of(row))]

RECURSIVE compile_loop(_, _)
compile_loop(st, rs) ==
    IF rs = <<>>
    THEN st
    ELSE compile_loop(compile_step(st, Head(rs)), Tail(rs))

\* The locals of compile when the loop over the rows has ended.
compile_locals(rs) ==
    compile_loop([global_allow     |-> EMPTY,
                  global_deny      |-> EMPTY,
                  global_attr_acls |-> EmptyMap,
                  scoped_entries   |-> <<>>], rs)

compile(dn, rs) ==
    LET st == compile_locals(rs)
    IN  UserAcl_new(dn, st.global_allow, st.global_deny, st.global_attr_acls,
                    st.scoped_entries)

(***************************************************************************)
(* Inputs                                                                  *)
(***************************************************************************)
MaxRows == 2

\* The longest attribute list a caller passes.
MaxAttrs == 2

\* The sets of at most n elements of S.
SetsUpTo(S, n) == {T \in SUBSET S : Cardinality(T) <= n}

\* The sequences of at most n elements of S.
SeqsUpTo(S, n) == UNION {[1..k -> S] : k \in 0..n}

DnX == <<"x">>

DnAX == <<"a", ",", "x">>

DnAXUpper == <<"A", ",", "X">>

DnPAX == <<"p", ",", "a", ",", "x">>

DnPAXUpper == <<"P", ",", "a", ",", "X">>

DnQAX == <<"q", ",", "a", ",", "x">>

DnBAX == <<"b", "a", ",", "x">>

DnABX == <<"a", "b", ",", "x">>

NoRules == <<>>

Row(low, high, scope_dn, scope_type, self_only, deny, priority, attr_rules) ==
    [perm_low   |-> low,
     perm_high  |-> high,
     scope_dn   |-> scope_dn,
     scope_type |-> scope_type,
     self_only  |-> self_only,
     deny       |-> deny,
     priority   |-> priority,
     attr_rules |-> attr_rules]

NoCall ==
    [op |-> "none", target |-> <<>>, required |-> {}, object_type |-> "",
     action |-> "", attribute |-> <<>>, attributes |-> <<>>, index |-> 0,
     is_self |-> FALSE]

NoCtor == [via |-> "empty", global_allow |-> {}, global_deny |-> {}, scoped |-> <<>>]

(***************************************************************************)
(* Actions                                                                 *)
(***************************************************************************)
InitWith(UserDns) ==
    /\ pc = "load"
    /\ user_dn \in UserDns
    /\ rows = <<>>
    /\ ctor = NoCtor
    /\ acl = UserAcl_empty(user_dn)
    /\ call = NoCall
    /\ ret = FALSE
    /\ attr_filter = allow_all
    /\ other_filter = allow_all
    /\ bitmap = EMPTY
    /\ other_bitmap = EMPTY

\* The loader appends one fetched row.
PushRow(Pool) ==
    /\ pc = "load"
    /\ Len(rows) < MaxRows
    /\ \E row \in Pool : rows' = Append(rows, row)
    /\ UNCHANGED <<pc, user_dn, ctor, acl, call, ret, attr_filter, other_filter,
                 bitmap, other_bitmap>>

\* compile(user_dn, rows)
Compile ==
    /\ pc = "load"
    /\ LET st == compile_locals(rows)
       IN  ctor' = [via          |-> "compile",
                    global_allow |-> st.global_allow,
                    global_deny  |-> st.global_deny,
                    scoped       |-> st.scoped_entries]
    /\ acl' = compile(user_dn, rows)
    /\ pc' = "ready"
    /\ UNCHANGED <<user_dn, rows, call, ret, attr_filter, other_filter,
                 bitmap, other_bitmap>>

\* UserAcl::new(user_dn, global_allow, global_deny, HashMap::new(), scoped)
\* called directly, with the entries in any order.
New(Allows, Denies, Entries) ==
    /\ pc = "load"
    /\ rows = <<>>
    /\ \E global_allow \in Allows, global_deny \in Denies, n \in 0..MaxRows :
         \E scoped \in [1..n -> Entries] :
            /\ ctor' = [via          |-> "new",
                        global_allow |-> global_allow,
                        global_deny  |-> global_deny,
                        scoped       |-> scoped]
            /\ acl' = UserAcl_new(user_dn, global_allow, global_deny, EmptyMap, scoped)
    /\ pc' = "ready"
    /\ UNCHANGED <<user_dn, rows, call, ret, attr_filter, other_filter,
                 bitmap, other_bitmap>>

\* acl.effective_permissions(target_dn)
EffectivePermissions(Targets) ==
    /\ pc = "ready"
    /\ \E target_dn \in Targets :
         /\ call' = [NoCall EXCEPT !.op = "effective_permissions", !.target = target_dn]
         /\ ret' = effective_permissions(acl, target_dn)
    /\ pc' = "returned"
    /\ UNCHANGED <<user_dn, rows, ctor, acl, attr_filter, other_filter,
                 bitmap, other_bitmap>>

\* acl.check(target_dn, required)
Check(Targets, Requireds) ==
    /\ pc = "ready"
    /\ \E target_dn \in Targets, required \in Requireds :
         /\ call' = [NoCall EXCEPT !.op = "check", !.target = target_dn,
                                   !.required = required]
         /\ ret' = check(acl, target_dn, required)
    /\ pc' = "returned"
    /\ UNCHANGED <<user_dn, rows, ctor, acl, attr_filter, other_filter,
                 bitmap, other_bitmap>>

\* entry.matches(target_dn_lower, user_dn_lower, is_self) called on one entry
\* of acl with arguments of the caller's choice.
Matches(Targets) ==
    /\ pc = "ready"
    /\ \E index \in DOMAIN acl.scoped, target_dn_lower \in Targets, self_flag \in BOOLEAN :
         /\ call' = [NoCall EXCEPT !.op = "matches", !.index = index,
                                   !.target = target_dn_lower, !.is_self = self_flag]
         /\ ret' = matches(acl.scoped[index], target_dn_lower, acl.user_dn_lower, self_flag)
    /\ pc' = "returned"
    /\ UNCHANGED <<user_dn, rows, ctor, acl, attr_filter, other_filter,
                 bitmap, other_bitmap>>

\* entry.matches as the evaluator calls it for a target DN: the target
\* lowercased, is_self computed from it.
EvaluatorMatches(Targets) ==
    /\ pc = "ready"
    /\ \E index \in DOMAIN acl.scoped, target_dn \in Targets :
         LET target_lower == to_ascii_lowercase(target_dn)
             self_flag    == target_lower = acl.user_dn_lower
         IN  /\ call' = [NoCall EXCEPT !.op = "evaluator_matches", !.index = index,
                                       !.target = target_dn, !.is_self = self_flag]
             /\ ret' = matches(acl.scoped[index], target_lower, acl.user_dn_lower, self_flag)
    /\ pc' = "returned"
    /\ UNCHANGED <<user_dn, rows, ctor, acl, attr_filter, other_filter,
                 bitmap, other_bitmap>>

\* acl.check_attribute(target_dn, required, object_type, action, attribute)
CheckAttribute(Targets, Requireds, ObjectTypes, QueryActions, Attributes) ==
    /\ pc = "ready"
    /\ \E target_dn \in Targets, required \in Requireds, object_type \in ObjectTypes,
          action \in QueryActions, attribute \in Attributes :
         /\ call' = [NoCall EXCEPT !.op = "check_attribute", !.target = target_dn,
                                   !.required = required, !.object_type = object_type,
                                   !.action = action, !.attribute = attribute]
         /\ ret' = check_attribute(acl, target_dn, required, object_type, action, attribute)
    /\ pc' = "returned"
    /\ UNCHANGED <<user_dn, rows, ctor, acl, attr_filter, other_filter,
                 bitmap, other_bitmap>>

\* acl.is_self(target_dn)
IsSelf(Targets) ==
    /\ pc = "ready"
    /\ \E target_dn \in Targets :
         /\ call' = [NoCall EXCEPT !.op = "is_self", !.target = target_dn]
         /\ ret' = is_self(acl, target_dn)
    /\ pc' = "returned"
    /\ UNCHANGED <<user_dn, rows, ctor, acl, attr_filter, other_filter,
                 bitmap, other_bitmap>>

\* acl.user_dn()
UserDn ==
    /\ pc = "ready"
    /\ call' = [NoCall EXCEPT !.op = "user_dn"]
    /\ ret' = UserAcl_user_dn(acl)
    /\ pc' = "returned"
    /\ UNCHANGED <<user_dn, rows, ctor, acl, attr_filter, other_filter,
                 bitmap, other_bitmap>>

\* acl.filter_attributes(target_dn, required, object_type, action, attributes)
FilterAttributes(Targets, Requireds, ObjectTypes, QueryActions, Attributes) ==
    /\ pc = "ready"
    /\ \E target_dn \in Targets, required \in Requireds, object_type \in ObjectTypes,
          action \in QueryActions, attributes \in SeqsUpTo(Attributes, MaxAttrs) :
         /\ call' = [NoCall EXCEPT !.op = "filter_attributes", !.target = target_dn,
                                   !.required = required, !.object_type = object_type,
                                   !.action = action, !.attributes = attributes]
         /\ ret' = filter_attributes(acl, target_dn, required, object_type, action,
                                     attributes)
    /\ pc' = "returned"
    /\ UNCHANGED <<user_dn, rows, ctor, acl, attr_filter, other_filter,
                 bitmap, other_bitmap>>

\* AttributeFilter::new(allowed, denied)
FilterNew(Names) ==
    /\ pc = "load"
    /\ \E allowed \in {None} \cup {Some(T) : T \in SetsUpTo(Names, MaxAttrs)},
          denied \in SetsUpTo(Names, MaxAttrs) :
         /\ attr_filter' = AttributeFilter_new(allowed, denied)
         /\ ctor' = [via |-> "new", allowed |-> allowed, denied |-> denied]
    /\ pc' = "ready"
    /\ UNCHANGED <<user_dn, rows, acl, call, ret, other_filter,
                 bitmap, other_bitmap>>

\* AttributeFilter::allow_all()
FilterAllowAll ==
    /\ pc = "load"
    /\ attr_filter' = allow_all
    /\ ctor' = [via |-> "allow_all", allowed |-> None, denied |-> {}]
    /\ pc' = "ready"
    /\ UNCHANGED <<user_dn, rows, acl, call, ret, other_filter,
                 bitmap, other_bitmap>>

\* AttributeFilter::deny_all()
FilterDenyAll ==
    /\ pc = "load"
    /\ attr_filter' = deny_all
    /\ ctor' = [via |-> "deny_all", allowed |-> Some({}), denied |-> {}]
    /\ pc' = "ready"
    /\ UNCHANGED <<user_dn, rows, acl, call, ret, other_filter,
                 bitmap, other_bitmap>>

\* AttributeFilter::with_allowed(attrs)
FilterWithAllowed(Names) ==
    /\ pc = "load"
    /\ \E attrs \in SetsUpTo(Names, MaxAttrs) :
         /\ attr_filter' = with_allowed(attrs)
         /\ ctor' = [via |-> "with_allowed", allowed |-> Some(attrs), denied |-> {}]
    /\ pc' = "ready"
    /\ UNCHANGED <<user_dn, rows, acl, call, ret, other_filter,
                 bitmap, other_bitmap>>

\* AttributeFilter::with_denied(attrs)
FilterWithDenied(Names) ==
    /\ pc = "load"
    /\ \E attrs \in SetsUpTo(Names, MaxAttrs) :
         /\ attr_filter' = with_denied(attrs)
         /\ ctor' = [via |-> "with_denied", allowed |-> None, denied |-> attrs]
    /\ pc' = "ready"
    /\ UNCHANGED <<user_dn, rows, acl, call, ret, other_filter,
                 bitmap, other_bitmap>>

\* What ctor says of a filter a mutating method has been called on.
Mutated == [via |-> "mutated", allowed |-> None, denied |-> {}]

\* attr_filter.merge(&other_filter)
FilterMerge ==
    /\ pc = "ready"
    /\ attr_filter' = merge(attr_filter, other_filter)
    /\ call' = [NoCall EXCEPT !.op = "merge"]
    /\ ctor' = Mutated
    /\ UNCHANGED <<pc, user_dn, rows, acl, ret, other_filter,
                 bitmap, other_bitmap>>

\* attr_filter.add_allowed(attrs)
FilterAddAllowed(Names) ==
    /\ pc = "ready"
    /\ \E attrs \in SetsUpTo(Names, MaxAttrs) :
         /\ attr_filter' = add_allowed(attr_filter, attrs)
         /\ call' = [NoCall EXCEPT !.op = "add_allowed", !.attributes = attrs]
    /\ ctor' = Mutated
    /\ UNCHANGED <<pc, user_dn, rows, acl, ret, other_filter,
                 bitmap, other_bitmap>>

\* attr_filter.add_denied(attrs)
FilterAddDenied(Names) ==
    /\ pc = "ready"
    /\ \E attrs \in SetsUpTo(Names, MaxAttrs) :
         /\ attr_filter' = add_denied(attr_filter, attrs)
         /\ call' = [NoCall EXCEPT !.op = "add_denied", !.attributes = attrs]
    /\ ctor' = Mutated
    /\ UNCHANGED <<pc, user_dn, rows, acl, ret, other_filter,
                 bitmap, other_bitmap>>

\* attr_filter.merged(&other_filter)
FilterMerged ==
    /\ pc = "ready"
    /\ call' = [NoCall EXCEPT !.op = "merged"]
    /\ ret' = merged(attr_filter, other_filter)
    /\ UNCHANGED <<pc, user_dn, rows, ctor, acl, attr_filter, other_filter,
                 bitmap, other_bitmap>>

\* attr_filter.is_attribute_permitted(attr)
FilterIsAttributePermitted(Attributes) ==
    /\ pc = "ready"
    /\ \E attr \in Attributes :
         /\ call' = [NoCall EXCEPT !.op = "is_attribute_permitted", !.attribute = attr]
         /\ ret' = is_attribute_permitted(attr_filter, attr)
    /\ UNCHANGED <<pc, user_dn, rows, ctor, acl, attr_filter, other_filter,
                 bitmap, other_bitmap>>

\* acl.evaluate(target_dn, required): the verdict is one of those the
\* iteration order of the denied sets allows.
Evaluate(Targets, Requireds) ==
    /\ pc = "ready"
    /\ \E target_dn \in Targets, required \in Requireds :
         /\ call' = [NoCall EXCEPT !.op = "evaluate", !.target = target_dn,
                                   !.required = required]
         /\ ret' \in evaluate(acl, target_dn, required)
    /\ pc' = "returned"
    /\ UNCHANGED <<user_dn, rows, ctor, acl, attr_filter, other_filter,
                   bitmap, other_bitmap>>

\* Thread t calls one of the read methods on the shared acl.
ThreadCall(t, Ops, Targets, Attributes) ==
    /\ pc = "ready"
    /\ ret[t].at \in {"idle", "done"}
    /\ \E op \in Ops, target_dn \in Targets, attribute \in Attributes :
         LET c == [NoCall EXCEPT !.op = op, !.target = target_dn, !.required = {0},
                                 !.object_type = "user", !.action = "read",
                                 !.attribute = attribute,
                                 !.attributes = <<attribute>>]
             begun == call_begin(acl, c)
         IN  /\ call' = [call EXCEPT ![t] = c]
             /\ ret' = [ret EXCEPT ![t] = begun.frame]
             /\ acl' = begun.acl
    /\ UNCHANGED <<pc, user_dn, rows, ctor, attr_filter, other_filter,
                   bitmap, other_bitmap>>

\* Thread t runs one iteration of its loop.
ThreadStep(t) ==
    /\ pc = "ready"
    /\ ret[t].at = "loop"
    /\ ret[t].index <= Len(acl.scoped)
    /\ \E stepped \in call_step(acl, call[t], ret[t]) :
         /\ ret' = [ret EXCEPT ![t] = stepped.frame]
         /\ acl' = stepped.acl
    /\ UNCHANGED <<pc, user_dn, rows, ctor, call, attr_filter, other_filter,
                   bitmap, other_bitmap>>

\* The call of thread t returns.
ThreadReturn(t) ==
    /\ pc = "ready"
    /\ ret[t].at = "loop"
    /\ ret[t].index > Len(acl.scoped)
    /\ ret' = [ret EXCEPT ![t] = [ret[t] EXCEPT !.at = "done",
                                                 !.value = call_return(call[t], ret[t])]]
    /\ UNCHANGED <<pc, user_dn, rows, ctor, acl, call, attr_filter, other_filter,
                   bitmap, other_bitmap>>

\* acl.to_json(): the text is kept by the caller (the cache).
ToJson ==
    /\ pc = "ready"
    /\ \E hasher \in {0, 1} :
         /\ call' = [NoCall EXCEPT !.op = "to_json", !.index = hasher]
         /\ ret' = to_json(acl, hasher)
    /\ pc' = "cached"
    /\ UNCHANGED <<user_dn, rows, ctor, acl, attr_filter, other_filter,
                   bitmap, other_bitmap>>

\* UserAcl.from_json(json) on a cached text, whole or cut short.
FromJson ==
    /\ pc = "cached"
    /\ \E cut \in BOOLEAN :
         LET text == IF cut
                     THEN Json("object", SubSeq(ret.value.value, 1, 5))
                     ELSE ret.value
         IN  /\ call' = [NoCall EXCEPT !.op = "from_json", !.is_self = cut]
             /\ ret' = from_json(text)
    /\ pc' = "returned"
    /\ UNCHANGED <<user_dn, rows, ctor, acl, attr_filter, other_filter,
                   bitmap, other_bitmap>>

\* PermissionBitmap::from_bit(pos)
FromBit(Positions) ==
    /\ pc = "ready"
    /\ \E pos \in Positions :
         /\ call' = [NoCall EXCEPT !.op = "from_bit", !.index = pos]
         /\ ret' = from_bit(pos)
    /\ UNCHANGED <<pc, user_dn, rows, ctor, acl, attr_filter, other_filter,
                   bitmap, other_bitmap>>

\* bitmap = PermissionBitmap::from_halves(low, high)
FromHalves(Halves) ==
    /\ pc = "ready"
    /\ \E low \in Halves, high \in Halves :
         /\ call' = [NoCall EXCEPT !.op = "from_halves", !.required = <<low, high>>]
         /\ bitmap' = from_halves(low, high)
         /\ ret' = bitmap'
    /\ UNCHANGED <<pc, user_dn, rows, ctor, acl, attr_filter, other_filter,
                   other_bitmap>>

\* bitmap.to_halves()
ToHalves ==
    /\ pc = "ready"
    /\ call' = [NoCall EXCEPT !.op = "to_halves"]
    /\ ret' = to_halves(bitmap)
    /\ UNCHANGED <<pc, user_dn, rows, ctor, acl, attr_filter, other_filter,
                   bitmap, other_bitmap>>

\* bitmap.has(other_bitmap)
BitmapHas ==
    /\ pc = "ready"
    /\ call' = [NoCall EXCEPT !.op = "has"]
    /\ ret' = has(bitmap, other_bitmap)
    /\ UNCHANGED <<pc, user_dn, rows, ctor, acl, attr_filter, other_filter,
                   bitmap, other_bitmap>>

\* bitmap.has_any(other_bitmap)
BitmapHasAny ==
    /\ pc = "ready"
    /\ call' = [NoCall EXCEPT !.op = "has_any"]
    /\ ret' = has_any(bitmap, other_bitmap)
    /\ UNCHANGED <<pc, user_dn, rows, ctor, acl, attr_filter, other_filter,
                   bitmap, other_bitmap>>

\* bitmap.union(other_bitmap)
BitmapUnion ==
    /\ pc = "ready"
    /\ call' = [NoCall EXCEPT !.op = "union"]
    /\ ret' = union(bitmap, other_bitmap)
    /\ UNCHANGED <<pc, user_dn, rows, ctor, acl, attr_filter, other_filter,
                   bitmap, other_bitmap>>

\* bitmap.intersection(other_bitmap)
BitmapIntersection ==
    /\ pc = "ready"
    /\ call' = [NoCall EXCEPT !.op = "intersection"]
    /\ ret' = intersection(bitmap, other_bitmap)
    /\ UNCHANGED <<pc, user_dn, rows, ctor, acl, attr_filter, other_filter,
                   bitmap, other_bitmap>>

\* bitmap.subtract(other_bitmap)
BitmapSubtract ==
    /\ pc = "ready"
    /\ call' = [NoCall EXCEPT !.op = "subtract"]
    /\ ret' = subtract(bitmap, other_bitmap)
    /\ UNCHANGED <<pc, user_dn, rows, ctor, acl, attr_filter, other_filter,
                   bitmap, other_bitmap>>

(***************************************************************************)
(* Permission folding: rows that differ in bitmap, deny flag, priority and *)
(* scope, queried for effective permissions and checks.                    *)
(***************************************************************************)
PermUserDns == {DnPAX}

PermHalves == {<<{0}, {}>>, <<{0}, {0}>>}

PermScopes == {<<<<>>, FALSE>>, <<DnAX, FALSE>>, <<<<>>, TRUE>>}

PermPriorities == {-1, 1}

PermRows ==
    {Row(h[1], h[2], sc[1], Subtree, sc[2], deny, priority, NoRules) :
        h \in PermHalves, sc \in PermScopes, deny \in BOOLEAN,
        priority \in PermPriorities}

PermTargets == {DnPAXUpper, DnQAX, DnX}

PermRequireds == {{}, {0, 64}}

PermGlobals == {{}, {0, 64}}

PermEntries ==
    {scoped_entry_of(Row(h[1], {}, DnAX, Subtree, FALSE, deny, priority, NoRules)) :
        h \in {<<{0}, {}>>, <<{1}, {}>>}, deny \in BOOLEAN, priority \in PermPriorities}

InitPerm == InitWith(PermUserDns)

NextPerm ==
    \/ PushRow(PermRows)
    \/ Compile
    \/ New(PermGlobals, {{}, {0}}, PermEntries)
    \/ EffectivePermissions(PermTargets)
    \/ Check(PermTargets, PermRequireds)

SpecPerm == InitPerm /\ [][NextPerm]_vars

(***************************************************************************)
(* Claims on the permission fold                                           *)
(***************************************************************************)
Returned(op) == pc = "returned" /\ call.op = op

TargetLower == to_ascii_lowercase(call.target)

TargetIsSelf == TargetLower = to_ascii_lowercase(user_dn)

\* The entry matches the target of the call, as the evaluator asks it.
EntryApplies(entry) ==
    matches(entry, TargetLower, to_ascii_lowercase(user_dn), TargetIsSelf)

\* Index i comes before index j when the entries given to UserAcl::new are
\* visited by ascending priority, input order breaking ties.
VisitedBefore(i, j) ==
    \/ ctor.scoped[i].priority < ctor.scoped[j].priority
    \/ ctor.scoped[i].priority = ctor.scoped[j].priority /\ i < j

RECURSIVE ReferenceFold(_, _)
ReferenceFold(running, remaining) ==
    IF remaining = {}
    THEN running
    ELSE LET i     == CHOOSE k \in remaining :
                          \A j \in remaining \ {k} : VisitedBefore(k, j)
             entry == ctor.scoped[i]
             next  == IF EntryApplies(entry)
                      THEN IF entry.deny
                           THEN running \ entry.permissions
                           ELSE running \cup entry.permissions
                      ELSE running
         IN  ReferenceFold(next, remaining \ {i})

\* C1: effective_permissions(target) is the reference fold: global_allow minus
\* global_deny, then the scoped entries by ascending priority (input order for
\* equal priorities), a matching deny entry subtracting its bits and a matching
\* allow entry adding them.
C1_EffectiveIsReferenceFold ==
    Returned("effective_permissions") =>
        ret = ReferenceFold(ctor.global_allow \ ctor.global_deny, DOMAIN ctor.scoped)

\* A lower-priority matching allow given after a higher-priority matching deny
\* re-ordered by the fold, with a non-matching call excluded.
C1_Witness ==
    /\ Returned("effective_permissions")
    /\ Len(ctor.scoped) = 2
    /\ ctor.scoped[1].deny /\ ~ctor.scoped[2].deny
    /\ ctor.scoped[1].priority > ctor.scoped[2].priority
    /\ EntryApplies(ctor.scoped[1]) /\ EntryApplies(ctor.scoped[2])
    /\ ctor.scoped[1].permissions = {0} /\ ctor.scoped[2].permissions = {0}
    /\ ctor.global_allow = {0, 64} /\ ctor.global_deny = {0}
    /\ ret = {64}

\* C2: check(target, required) is true iff effective_permissions(target) has
\* every bit of required; check(target, empty) is true for every target.
C2_CheckAgreesWithEffective ==
    Returned("check") =>
        /\ ret = (call.required \subseteq effective_permissions(acl, call.target))
        /\ call.required = {} => ret = TRUE

C2_Witness ==
    /\ Returned("check")
    /\ call.required = {}
    /\ acl.global_allow = {} /\ acl.scoped = <<>>
    /\ ret = TRUE

\* C8: the scoped sequence of a UserAcl is sorted by priority (signed), is a
\* permutation of the entries given, and keeps the input order of entries
\* with equal priority.
RECURSIVE WithPriority(_, _)
WithPriority(seq, p) ==
    IF seq = <<>>
    THEN <<>>
    ELSE IF Head(seq).priority = p
         THEN <<Head(seq)>> \o WithPriority(Tail(seq), p)
         ELSE WithPriority(Tail(seq), p)

Occurrences(seq, e) == Cardinality({i \in DOMAIN seq : seq[i] = e})

C8_ScopedSortedStable ==
    pc # "load" =>
        /\ \A i, j \in DOMAIN acl.scoped :
              i < j => acl.scoped[i].priority <= acl.scoped[j].priority
        /\ \A i \in DOMAIN acl.scoped :
              acl.scoped[i].priority \in I16Min..I16Max
        /\ Len(acl.scoped) = Len(ctor.scoped)
        /\ \A i \in DOMAIN ctor.scoped :
              Occurrences(acl.scoped, ctor.scoped[i]) = Occurrences(ctor.scoped, ctor.scoped[i])
        /\ \A i \in DOMAIN ctor.scoped :
              WithPriority(acl.scoped, ctor.scoped[i].priority)
                  = WithPriority(ctor.scoped, ctor.scoped[i].priority)

C8_Witness ==
    /\ pc = "ready"
    /\ ctor.via = "compile"
    /\ Len(ctor.scoped) = 2
    /\ ctor.scoped[1].priority = 1 /\ ctor.scoped[2].priority = -1
    /\ acl.scoped[1] = ctor.scoped[2] /\ acl.scoped[2] = ctor.scoped[1]

\* C9: compile takes a row as global iff scope_dn is empty and self_only is
\* false; global_allow / global_deny are the unions of the bitmaps of the
\* global allow / deny rows; every other row gives exactly one scoped entry.
ClaimedGlobal(row) == row.scope_dn = <<>> /\ row.self_only = FALSE

RowBitmap(row) == row.perm_low \cup {b + 64 : b \in row.perm_high}

C9_CompileClassifies ==
    (pc # "load" /\ ctor.via = "compile") =>
        LET globals == {k \in DOMAIN rows : ClaimedGlobal(rows[k])}
            others  == DOMAIN rows \ globals
            entry   == [k \in others |-> scoped_entry_of(rows[k])]
        IN  /\ acl.global_allow =
                  UNION {RowBitmap(rows[k]) : k \in {g \in globals : ~rows[g].deny}}
            /\ acl.global_deny =
                  UNION {RowBitmap(rows[k]) : k \in {g \in globals : rows[g].deny}}
            /\ Len(acl.scoped) = Cardinality(others)
            /\ \A k \in others :
                  Occurrences(acl.scoped, entry[k])
                      = Cardinality({j \in others : entry[j] = entry[k]})
            /\ rows = <<>> =>
                  acl.global_allow = {} /\ acl.global_deny = {} /\ acl.scoped = <<>>

C9_Witness ==
    /\ pc = "ready"
    /\ ctor.via = "compile"
    /\ Len(rows) = 2
    /\ ClaimedGlobal(rows[1]) /\ rows[1].deny
    /\ rows[2].scope_dn = <<>> /\ rows[2].self_only /\ ~rows[2].deny
    /\ acl.global_deny = {0, 64} /\ acl.global_allow = {}
    /\ Len(acl.scoped) = 1

\* A row applies to the target of the call: a global row applies to every
\* target, any other row when its compiled entry matches.
RowApplies(row) == ClaimedGlobal(row) \/ EntryApplies(scoped_entry_of(row))

\* Row d is a deny row that applies, carries b, and has strictly higher
\* priority than every allow row that applies and carries b.
DenyOutranksAllows(d, b) ==
    /\ b \in RowBitmap(rows[d])
    /\ rows[d].deny
    /\ RowApplies(rows[d])
    /\ \A a \in DOMAIN rows :
          (~rows[a].deny /\ RowApplies(rows[a]) /\ b \in RowBitmap(rows[a]))
              => rows[d].priority > rows[a].priority

\* C6 as stated: a deny row, global or scoped, that applies to the target,
\* carries bit b and outranks every applicable allow row carrying b keeps b
\* out of effective_permissions(target).
C6_DenyOutranksAsStated ==
    (Returned("effective_permissions") /\ ctor.via = "compile") =>
        \A d \in DOMAIN rows : \A b \in RowBitmap(rows[d]) :
            DenyOutranksAllows(d, b) => b \notin ret

\* C6 as amended: the statement holds for a matching scoped deny row; a global
\* deny row is applied before every scoped entry whatever its priority, so it
\* keeps b out only when no matching scoped allow row carries b.
C6_ScopedDenyOutranks ==
    (Returned("effective_permissions") /\ ctor.via = "compile") =>
        \A d \in DOMAIN rows : \A b \in RowBitmap(rows[d]) :
            ( /\ DenyOutranksAllows(d, b)
              /\ ClaimedGlobal(rows[d]) =>
                    ~\E a \in DOMAIN rows :
                        /\ ~ClaimedGlobal(rows[a]) /\ ~rows[a].deny
                        /\ RowApplies(rows[a]) /\ b \in RowBitmap(rows[a]) )
            => b \notin ret

C6_Witness ==
    /\ Returned("effective_permissions")
    /\ ctor.via = "compile"
    /\ Len(rows) = 2
    /\ ~ClaimedGlobal(rows[1]) /\ ~ClaimedGlobal(rows[2])
    /\ DenyOutranksAllows(1, 0)
    /\ ~rows[2].deny /\ RowApplies(rows[2]) /\ RowBitmap(rows[2]) = {0, 64}
    /\ ret = {64}

\* The matching entries that carry bit b, as indices of the entries given.
Deciders(b) ==
    {i \in DOMAIN ctor.scoped :
        EntryApplies(ctor.scoped[i]) /\ b \in ctor.scoped[i].permissions}

LastDecider(b) ==
    CHOOSE i \in Deciders(b) : \A j \in Deciders(b) \ {i} : VisitedBefore(j, i)

\* C7: among the matching scoped entries that carry b, the one applied last
\* (highest priority, the later in input order for equal priorities) decides
\* b; two matching allow entries at different priorities give the union of
\* their bitmaps (over the global bits) in either input order.
C7_LastAppliedDecides ==
    Returned("effective_permissions") =>
        /\ \A i \in DOMAIN ctor.scoped : \A b \in ctor.scoped[i].permissions :
              Deciders(b) # {} => (b \in ret <=> ~ctor.scoped[LastDecider(b)].deny)
        /\ ( /\ Len(ctor.scoped) = 2
             /\ \A i \in {1, 2} : ~ctor.scoped[i].deny /\ EntryApplies(ctor.scoped[i])
             /\ ctor.scoped[1].priority # ctor.scoped[2].priority )
           => /\ ret = (ctor.global_allow \ ctor.global_deny)
                          \cup ctor.scoped[1].permissions \cup ctor.scoped[2].permissions
              /\ ret = effective_permissions(
                           UserAcl_new(user_dn, ctor.global_allow, ctor.global_deny,
                                       EmptyMap, <<ctor.scoped[2], ctor.scoped[1]>>),
                           call.target)

C7_Witness ==
    /\ Returned("effective_permissions")
    /\ Len(ctor.scoped) = 2
    /\ ctor.scoped[1].priority = ctor.scoped[2].priority
    /\ ~ctor.scoped[1].deny /\ ctor.scoped[2].deny
    /\ Deciders(0) = {1, 2}
    /\ 0 \in ctor.global_allow \ ctor.global_deny
    /\ 0 \notin ret

(***************************************************************************)
(* Scope matching: rows that differ in scope_dn, scope_type and self_only, *)
(* their compiled entries asked whether they match.                        *)
(***************************************************************************)
SubtreeUpper == <<"S","u","b","T","R","E","E">>

\* A scope_type the compiler does not know.
OneLevel == <<"o","n","e">>

MatchUserDns == {DnPAXUpper}

MatchScopeDns == {<<>>, DnAXUpper, DnPAX}

MatchScopeTypes == {Subtree, SubtreeUpper, Base}

MatchRows ==
    {Row({0}, {}, scope_dn, scope_type, self_only, FALSE, 0, NoRules) :
        scope_dn \in MatchScopeDns, scope_type \in MatchScopeTypes,
        self_only \in BOOLEAN}

MatchLowerTargets == {<<>>, DnX, DnAX, DnPAX, DnQAX, DnBAX, DnABX}

MatchTargets == {<<>>, DnAX, DnPAX, DnPAXUpper, DnQAX, DnBAX}

InitMatch == InitWith(MatchUserDns)

NextMatch ==
    \/ PushRow(MatchRows)
    \/ Compile
    \/ Matches(MatchLowerTargets)
    \/ EvaluatorMatches(MatchTargets)

SpecMatch == InitMatch /\ [][NextMatch]_vars

CalledEntry == acl.scoped[call.index]

\* The target is the scope DN itself or a DN that has the scope DN as the
\* suffix after one of its commas.
AtOrBelow(target, scope) ==
    \/ target = scope
    \/ \E k \in DOMAIN target :
          target[k] = "," /\ SubSeq(target, k + 1, Len(target)) = scope

\* C3: for an entry the self_only test lets through, a subtree entry with a
\* non-empty dn_lower matches iff the target is dn_lower or ends with "," and
\* dn_lower; a base entry matches iff the target is dn_lower; a subtree entry
\* with an empty dn_lower matches every target.
C3_ScopeMatchOnBoundaries ==
    (Returned("matches") /\ (CalledEntry.self_only => call.is_self)) =>
        /\ (CalledEntry.subtree /\ CalledEntry.dn_lower # <<>>) =>
              ret = AtOrBelow(call.target, CalledEntry.dn_lower)
        /\ ~CalledEntry.subtree => ret = (call.target = CalledEntry.dn_lower)
        /\ (CalledEntry.subtree /\ CalledEntry.dn_lower = <<>>) => ret = TRUE
        /\ (CalledEntry.subtree /\ CalledEntry.dn_lower = DnAX) =>
              /\ call.target \in {DnPAX, DnAX} => ret = TRUE
              /\ call.target \in {DnABX, DnBAX} => ret = FALSE

\* A target whose last characters are the scope DN, not preceded by a comma.
C3_Witness ==
    /\ Returned("matches")
    /\ CalledEntry.subtree /\ ~CalledEntry.self_only
    /\ CalledEntry.dn_lower = DnAX
    /\ call.target = DnBAX
    /\ ret = FALSE

\* C5: the entry compiled from a row with an empty scope_dn and self_only
\* matches a target iff the target is the principal's DN ignoring ASCII case,
\* whatever the scope_type of the row.
C5_SelfOnlyRowMatchesOwnEntry ==
    (Returned("evaluator_matches") /\ CalledEntry.dn_lower = <<>> /\ CalledEntry.self_only) =>
        ret = (to_ascii_lowercase(call.target) = to_ascii_lowercase(user_dn))

(***************************************************************************)
(* Attribute names and attribute rules                                     *)
(***************************************************************************)
AttrCn == <<"c", "n">>

AttrCnUpper == <<"C", "N">>

AttrSn == <<"s", "n">>

AttrCnMixed == <<"C", "n">>

AttrMail == <<"m", "a", "i", "l">>

AttrRule(object_type, action, rule_type, attributes) ==
    [object_type |-> object_type,
     action      |-> action,
     rule_type   |-> rule_type,
     attributes  |-> attributes]

(***************************************************************************)
(* Self-only rows: rows with and without self_only, with attribute rules,  *)
(* queried for the principal's own entry and for other entries.            *)
(***************************************************************************)
SelfUserDns == {DnPAXUpper}

SelfScopes == {<<DnAX, FALSE>>, <<<<>>, TRUE>>, <<DnAX, TRUE>>}

SelfRules ==
    {NoRules,
     <<AttrRule("user", "read", "deny", <<AttrCnUpper>>)>>,
     <<AttrRule("user", "read", "allow", <<AttrSn>>)>>}

SelfRows ==
    {Row({0}, {}, sc[1], Subtree, sc[2], deny, 0, rules) :
        sc \in SelfScopes, deny \in BOOLEAN, rules \in SelfRules}

SelfTargets == {DnPAX, DnQAX, DnX}

InitSelf == InitWith(SelfUserDns)

NextSelf ==
    \/ PushRow(SelfRows)
    \/ Compile
    \/ EffectivePermissions(SelfTargets)
    \/ CheckAttribute(SelfTargets, {{0}}, {"user"}, {"read"}, {AttrCn, AttrSn})

SpecSelf == InitSelf /\ [][NextSelf]_vars

\* The rows without row k.
RowsWithout(k) == SubSeq(rows, 1, k - 1) \o SubSeq(rows, k + 1, Len(rows))

\* C4: for a target that is not the principal's own DN (ignoring ASCII case),
\* effective_permissions, the resolved attribute filter and check_attribute
\* are what they are for the ACL compiled without the self_only row.
C4_SelfOnlyNeverAppliesToOthers ==
    (pc = "returned" /\ ctor.via = "compile" /\ ~TargetIsSelf) =>
        \A k \in DOMAIN rows :
            rows[k].self_only =>
                LET without == compile(user_dn, RowsWithout(k))
                IN  /\ call.op = "effective_permissions" =>
                          ret = effective_permissions(without, call.target)
                    /\ call.op = "check_attribute" =>
                          /\ ret = check_attribute(without, call.target, call.required,
                                                   call.object_type, call.action,
                                                   call.attribute)
                          /\ resolve_attr_filter_for_type(acl, call.target,
                                                          call.object_type, call.action)
                               = resolve_attr_filter_for_type(without, call.target,
                                                              call.object_type, call.action)

\* A self_only deny row whose subtree covers the entry of another principal,
\* given after the allow row that grants the bit there.
C4_Witness ==
    /\ Returned("effective_permissions")
    /\ ctor.via = "compile"
    /\ Len(rows) = 2
    /\ ~rows[1].self_only /\ ~rows[1].deny /\ rows[1].scope_dn = DnAX
    /\ rows[2].self_only /\ rows[2].deny /\ rows[2].scope_dn = DnAX
    /\ call.target = DnQAX
    /\ ret = {0}

(***************************************************************************)
(* Attribute resolution: global and scoped rows with attribute rules,      *)
(* queried with check_attribute.                                           *)
(***************************************************************************)
AttrUserDns == {DnPAX}

AttrScopes == {<<>>, DnAX}

AttrRuleSets ==
    {NoRules,
     <<AttrRule("user", "read", "allow", <<AttrCnUpper>>)>>,
     <<AttrRule("user", "read", "deny", <<AttrCn>>)>>,
     <<AttrRule("user", "read", "allow", <<AttrSn>>),
       AttrRule("user", "write", "deny", <<AttrSn>>)>>,
     <<AttrRule("user", "write", "allow", <<AttrCn, AttrSn>>),
       AttrRule("user", "write", "allow", <<>>),
       AttrRule("user", "read", "deny", <<AttrSn>>)>>}

AttrRows ==
    {Row({0}, {}, scope_dn, Subtree, FALSE, deny, 0, rules) :
        scope_dn \in AttrScopes, deny \in BOOLEAN, rules \in AttrRuleSets}

AttrTargets == {DnQAX, DnX}

InitAttr == InitWith(AttrUserDns)

NextAttr ==
    \/ PushRow(AttrRows)
    \/ Compile
    \/ CheckAttribute(AttrTargets, {{}, {0}}, {"user", "group"}, {"read", "write"},
                      {AttrCnUpper, AttrSn})

SpecAttr == InitAttr /\ [][NextAttr]_vars

\* The filter of acl's global entry for the object type and action of the
\* call, allow_all when the object type has none.
GlobalFilterOfCall ==
    IF call.object_type \in DOMAIN acl.global_attr_acls
    THEN IF call.action = "write"
         THEN acl.global_attr_acls[call.object_type].write
         ELSE acl.global_attr_acls[call.object_type].read
    ELSE [allowed |-> <<>>, denied |-> {}]

\* The scoped entries that match the target and have an entry for the
\* object type of the call, and their filters for the action of the call.
Contributors ==
    {i \in DOMAIN acl.scoped :
        EntryApplies(acl.scoped[i]) /\ call.object_type \in DOMAIN acl.scoped[i].attr_acls}

FilterOfContributor(i) ==
    IF call.action = "write"
    THEN acl.scoped[i].attr_acls[call.object_type].write
    ELSE acl.scoped[i].attr_acls[call.object_type].read

\* The whitelists merged into the resolved filter: the global one and those
\* of the contributing allow entries.
Whitelists ==
    (IF GlobalFilterOfCall.allowed # <<>> THEN {GlobalFilterOfCall.allowed[1]} ELSE {})
    \cup {FilterOfContributor(i).allowed[1] :
             i \in {k \in Contributors :
                       ~acl.scoped[k].deny /\ FilterOfContributor(k).allowed # <<>>}}

ResolvedDenied ==
    GlobalFilterOfCall.denied \cup UNION {FilterOfContributor(i).denied : i \in Contributors}

PermittedByResolved(attribute) ==
    LET name == to_ascii_lowercase(attribute)
    IN  /\ name \notin ResolvedDenied
        /\ Whitelists # {} => name \in UNION Whitelists

\* C10: check_attribute is false when check fails; otherwise it is the verdict
\* of the filter resolved from the global filter of the object type and
\* action, the merged filters of the matching allow entries and the denied
\* sets of the matching deny entries.
C10_CheckAttributeResolves ==
    Returned("check_attribute") =>
        IF ~check(acl, call.target, call.required)
        THEN ret = FALSE
        ELSE ret = PermittedByResolved(call.attribute)

\* A whitelisted attribute that a matching scoped deny entry denies.
C10_Witness ==
    /\ Returned("check_attribute")
    /\ check(acl, call.target, call.required)
    /\ call.action = "write"
    /\ call.attribute = AttrSn
    /\ GlobalFilterOfCall.allowed = <<{AttrCn, AttrSn}>>
    /\ \E i \in Contributors : acl.scoped[i].deny /\ AttrSn \in FilterOfContributor(i).denied
    /\ ret = FALSE

(***************************************************************************)
(* Attribute lists: rows with attribute rules, queried with                *)
(* filter_attributes on lists with repeated and differently spelled names. *)
(***************************************************************************)
ListUserDns == {DnPAX}

ListRuleSets ==
    {NoRules,
     <<AttrRule("user", "read", "allow", <<AttrCnUpper, AttrSn>>)>>,
     <<AttrRule("user", "read", "deny", <<AttrSn>>),
       AttrRule("user", "write", "allow", <<AttrSn>>)>>}

ListRows ==
    {Row({0}, {}, scope_dn, Subtree, FALSE, deny, 0, rules) :
        scope_dn \in {<<>>, DnAX}, deny \in BOOLEAN, rules \in ListRuleSets}

InitList == InitWith(ListUserDns)

NextList ==
    \/ PushRow(ListRows)
    \/ Compile
    \/ FilterAttributes({DnQAX}, {{0}}, {"user"}, {"read", "write"},
                        {AttrCnUpper, AttrCn, AttrSn})

SpecList == InitList /\ [][NextList]_vars

\* check_attribute for the target, bitmap, object type and action of the
\* call, asked about one attribute.
CallPermits(attribute) ==
    check_attribute(acl, call.target, call.required, call.object_type, call.action,
                    attribute)

\* The positions of the attribute list of the call that check_attribute lets
\* through.
KeptPositions == {i \in DOMAIN call.attributes : CallPermits(call.attributes[i])}

\* The j-th smallest element of a set of positions.
NthPosition(P, j) == CHOOSE i \in P : Cardinality({k \in P : k <= i}) = j

\* C11: filter_attributes returns the attributes of the list that
\* check_attribute accepts for the same target, bitmap, object type and
\* action, in input order, spelled as given, repeated as given; it returns
\* the empty sequence when check(target, required) is false.
C11_FilterAttributesIsSubsequence ==
    Returned("filter_attributes") =>
        /\ Len(ret) = Cardinality(KeptPositions)
        /\ \A j \in DOMAIN ret : ret[j] = call.attributes[NthPosition(KeptPositions, j)]
        /\ ~check(acl, call.target, call.required) => ret = <<>>

\* A list whose first name is rejected and whose second is kept in the
\* upper-case spelling it was given in.
C11_Witness ==
    /\ Returned("filter_attributes")
    /\ call.attributes = <<AttrSn, AttrCnUpper>>
    /\ ret = <<AttrCnUpper>>
    /\ \E i \in DOMAIN acl.scoped : acl.scoped[i].deny /\ acl.scoped[i].attr_acls # EmptyMap

(***************************************************************************)
(* AttributeFilter objects: a filter built by one of the constructors,     *)
(* changed by merge, add_allowed and add_denied, and asked about names.    *)
(***************************************************************************)
FilterNames == {AttrCn, AttrCnUpper, AttrSn}

FilterQueries == {AttrCn, AttrCnUpper, AttrCnMixed, AttrSn, AttrMail}

OtherFilters ==
    {allow_all, deny_all, with_allowed({AttrSn}), with_denied({AttrCnUpper}),
     AttributeFilter_new(Some({AttrCn, AttrSn}), {AttrSn})}

InitFilter ==
    /\ pc = "load"
    /\ user_dn = DnPAX
    /\ rows = <<>>
    /\ ctor = NoCtor
    /\ acl = UserAcl_empty(user_dn)
    /\ call = NoCall
    /\ ret = FALSE
    /\ attr_filter = allow_all
    /\ other_filter \in OtherFilters
    /\ bitmap = EMPTY
    /\ other_bitmap = EMPTY

NextFilter ==
    \/ FilterNew(FilterNames)
    \/ FilterAllowAll
    \/ FilterDenyAll
    \/ FilterWithAllowed(FilterNames)
    \/ FilterWithDenied(FilterNames)
    \/ FilterMerge
    \/ FilterAddAllowed(FilterNames)
    \/ FilterAddDenied(FilterNames)
    \/ FilterMerged
    \/ FilterIsAttributePermitted(FilterQueries)

SpecFilter == InitFilter /\ [][NextFilter]_vars

\* The upper-case letter of every ASCII lower-case letter.
UpperOfLower ==
    [c \in {LowerChars[i] : i \in DOMAIN LowerChars} |->
        UpperChars[CHOOSE i \in DOMAIN LowerChars : LowerChars[i] = c]]

ToUpper(s) ==
    [i \in DOMAIN s |-> IF s[i] \in DOMAIN UpperOfLower THEN UpperOfLower[s[i]] ELSE s[i]]

\* Two names that differ at most in the case of their ASCII letters.
SameName(a, b) ==
    /\ Len(a) = Len(b)
    /\ \A i \in DOMAIN a :
          \/ a[i] = b[i]
          \/ \E k \in DOMAIN UpperChars : {a[i], b[i]} = {UpperChars[k], LowerChars[k]}

\* Every spelling of a name that differs from it only in ASCII letter case.
RECURSIVE CaseVariants(_)
CaseVariants(name) ==
    IF name = <<>>
    THEN {<<>>}
    ELSE LET first == <<Head(name)>>
         IN  {c \o v : c \in {ToUpper(first), to_ascii_lowercase(first)},
                       v \in CaseVariants(Tail(name))}

\* The constructor call recorded in ctor, made with every name respelled by
\* Respell.
Rebuilt(Respell(_)) ==
    LET allowed == IF ctor.allowed = None
                   THEN None
                   ELSE Some({Respell(n) : n \in ctor.allowed[1]})
        denied  == {Respell(n) : n \in ctor.denied}
    IN  CASE ctor.via = "new"          -> AttributeFilter_new(allowed, denied)
          [] ctor.via = "with_allowed" -> with_allowed(allowed[1])
          [] ctor.via = "with_denied"  -> with_denied(denied)
          [] ctor.via = "allow_all"    -> allow_all
          [] ctor.via = "deny_all"     -> deny_all

\* A filter value permits a name: not denied, and on the whitelist if there
\* is one (membership under lower-casing of the query).
Denies(f, x) == to_ascii_lowercase(x) \in f.denied

OnWhitelist(f, x) == f.allowed # None /\ to_ascii_lowercase(x) \in f.allowed[1]

\* C12: for a filter built by a constructor, is_attribute_permitted(x) is
\* false when a name given as denied is x up to ASCII case, else true when
\* no whitelist was given, else whether a whitelisted name is x up to ASCII
\* case; every case variant of x, and the same constructor called with the
\* names respelled, give the same verdict; a name in both sets is not
\* permitted; allow_all permits every name and deny_all none.
C12_PermittedByConstruction ==
    (call.op = "is_attribute_permitted" /\ ctor.via # "mutated") =>
        LET x         == call.attribute
            is_denied == \E d \in ctor.denied : SameName(d, x)
            is_listed == ctor.allowed # None /\ \E a \in ctor.allowed[1] : SameName(a, x)
        IN  /\ ret = IF is_denied
                     THEN FALSE
                     ELSE IF ctor.allowed = None THEN TRUE ELSE is_listed
            /\ ret = IF Denies(attr_filter, x)
                     THEN FALSE
                     ELSE IF attr_filter.allowed = None THEN TRUE
                          ELSE OnWhitelist(attr_filter, x)
            /\ \A v \in CaseVariants(x) : is_attribute_permitted(attr_filter, v) = ret
            /\ is_attribute_permitted(Rebuilt(ToUpper), x) = ret
            /\ is_attribute_permitted(Rebuilt(to_ascii_lowercase), x) = ret
            /\ (is_denied /\ is_listed) => ret = FALSE
            /\ ctor.via = "allow_all" => ret = TRUE
            /\ ctor.via = "deny_all" => ret = FALSE

\* A name given as allowed in upper case and as denied in lower case, asked
\* about in mixed case.
C12_Witness ==
    /\ call.op = "is_attribute_permitted"
    /\ ctor.via = "new"
    /\ ctor.allowed = Some({AttrCnUpper, AttrSn})
    /\ ctor.denied = {AttrCn}
    /\ call.attribute = AttrCnMixed
    /\ ret = FALSE

\* C13: a step f.merge(g) leaves f with denied = f.denied \cup g.denied and
\* with allowed = (a) the union of the whitelists when both have one, (b)
\* f's whitelist when only f has one, (c) g's whitelist when only g has one,
\* (d) none when neither has one; g is unchanged.
C13_MergeRules ==
    [][call'.op = "merge" =>
          LET f == attr_filter
              g == other_filter
              r == attr_filter'
          IN  /\ r.denied = f.denied \cup g.denied
              /\ (f.allowed # None /\ g.allowed # None) =>
                    r.allowed = Some(f.allowed[1] \cup g.allowed[1])
              /\ (f.allowed # None /\ g.allowed = None) => r.allowed = f.allowed
              /\ (f.allowed = None /\ g.allowed # None) => r.allowed = g.allowed
              /\ (f.allowed = None /\ g.allowed = None) => r.allowed = None
              /\ other_filter' = g]_vars

\* A whitelist merged with an unrestricted filter that denies a name.
C13_Witness ==
    /\ call.op = "merge"
    /\ other_filter = with_denied({AttrCnUpper})
    /\ attr_filter = [allowed |-> Some({AttrCn, AttrSn}), denied |-> {AttrCn}]

\* What the filters say of the names asked about when merged was called.
NotDeniedByEither(x) == ~Denies(attr_filter, x) /\ ~Denies(other_filter, x)

EitherPermits(x) ==
    is_attribute_permitted(attr_filter, x) \/ is_attribute_permitted(other_filter, x)

\* C14 as stated: every name neither f nor g denies and that f or g permits
\* is permitted by f.merged(g).
C14_MergedPermitsWhatEitherPermits ==
    call.op = "merged" =>
        \A x \in FilterQueries :
            (NotDeniedByEither(x) /\ EitherPermits(x)) => is_attribute_permitted(ret, x)

\* C14 as amended: the statement holds when f and g both have a whitelist or
\* neither has one; when exactly one of them has a whitelist, f.merged(g)
\* permits a name neither denies iff that whitelist has it, whatever the
\* unrestricted filter permits.
C14_MergedPermitsWithinWhitelists ==
    call.op = "merged" =>
        \A x \in FilterQueries :
            NotDeniedByEither(x) =>
                IF (attr_filter.allowed = None) = (other_filter.allowed = None)
                THEN EitherPermits(x) => is_attribute_permitted(ret, x)
                ELSE is_attribute_permitted(ret, x)
                         = (OnWhitelist(attr_filter, x) \/ OnWhitelist(other_filter, x))

\* Two whitelists, each permitting a name the other does not.
C14_Witness ==
    /\ call.op = "merged"
    /\ attr_filter = with_allowed({AttrCn})
    /\ other_filter = with_allowed({AttrSn})
    /\ is_attribute_permitted(ret, AttrCnUpper)
    /\ is_attribute_permitted(ret, AttrSn)
    /\ ~is_attribute_permitted(ret, AttrMail)

\* C15: a name in the denied set of the filter stays there, and stays not
\* permitted, over every step (merge, add_allowed, add_denied); and
\* f.merged(g) denies every name f or g denies.
C15_DenialsArePermanent ==
    [][/\ \A x \in FilterQueries :
             Denies(attr_filter, x) =>
                 Denies(attr_filter', x) /\ ~is_attribute_permitted(attr_filter', x)
       /\ call'.op = "merged" =>
             \A x \in FilterQueries :
                 (Denies(attr_filter', x) \/ Denies(other_filter', x)) =>
                     Denies(ret', x) /\ ~is_attribute_permitted(ret', x)]_vars

\* add_allowed called with a name the filter denies.
C15_Witness ==
    /\ call.op = "add_allowed"
    /\ AttrCnUpper \in call.attributes
    /\ attr_filter.allowed = Some({AttrCn})
    /\ AttrCn \in attr_filter.denied

(***************************************************************************)
(* Deny rows with attribute rules: global and scoped rows, allow and deny, *)
(* whose rules whitelist and deny names, queried with check_attribute.     *)
(***************************************************************************)
DenyUserDns == {DnPAX}

DenyRuleSets ==
    {<<AttrRule("user", "read", "allow", <<AttrCnUpper>>)>>,
     <<AttrRule("user", "read", "allow", <<AttrSn>>),
       AttrRule("user", "write", "deny", <<AttrSn>>)>>,
     <<AttrRule("user", "read", "deny", <<AttrCnUpper, AttrSn>>)>>}

DenyRows ==
    {Row({0}, {}, scope_dn, Subtree, FALSE, deny, 0, rules) :
        scope_dn \in {<<>>, DnAX}, deny \in BOOLEAN, rules \in DenyRuleSets}

InitDeny == InitWith(DenyUserDns)

NextDeny ==
    \/ PushRow(DenyRows)
    \/ Compile
    \/ CheckAttribute({DnQAX, DnX}, {{}}, {"user"}, {"read", "write"}, {AttrCn})

SpecDeny == InitDeny /\ [][NextDeny]_vars

\* The names, lower-cased, of the deny rules of a row for an object type and
\* an action.
RowDeniedNames(row, object_type, action) ==
    UNION {LowerSet({row.attr_rules[i].attributes[j] :
                        j \in DOMAIN row.attr_rules[i].attributes}) :
             i \in {r \in DOMAIN row.attr_rules :
                       /\ row.attr_rules[r].object_type = object_type
                       /\ row.attr_rules[r].action = action
                       /\ row.attr_rules[r].rule_type = "deny"}}

\* The filter check_attribute resolves for the call on an ACL.
ResolvedFor(an_acl) ==
    resolve_attr_filter_for_type(an_acl, call.target, call.object_type, call.action)

\* C16: for the object type and action of the call, the filter resolved with
\* a deny row (global, or scoped and matching the target) has the allowed
\* component of the filter resolved without the row, and for denied set the
\* one resolved without the row plus the names of the row's deny rules for
\* that object type and action; a deny row that does not match the target
\* changes nothing.
C16_DenyRowOnlyDenies ==
    (Returned("check_attribute") /\ ctor.via = "compile") =>
        \A k \in DOMAIN rows :
            rows[k].deny =>
                LET with_row    == ResolvedFor(acl)
                    without_row == ResolvedFor(compile(user_dn, RowsWithout(k)))
                    names       == IF RowApplies(rows[k])
                                   THEN RowDeniedNames(rows[k], call.object_type, call.action)
                                   ELSE {}
                IN  /\ with_row.allowed = without_row.allowed
                    /\ with_row.denied = without_row.denied \cup names

\* A global deny row that carries an allow rule and a deny rule, next to a
\* scoped allow row with a whitelist.
C16_Witness ==
    /\ Returned("check_attribute")
    /\ ctor.via = "compile"
    /\ Len(rows) = 2
    /\ rows[1].deny /\ rows[1].scope_dn = <<>>
    /\ rows[1].attr_rules = <<AttrRule("user", "read", "allow", <<AttrSn>>),
                              AttrRule("user", "write", "deny", <<AttrSn>>)>>
    /\ ~rows[2].deny /\ rows[2].scope_dn = DnAX
    /\ rows[2].attr_rules = <<AttrRule("user", "read", "allow", <<AttrCnUpper>>)>>
    /\ call.target = DnQAX /\ call.object_type = "user" /\ call.action = "read"
    /\ ResolvedFor(acl) = [allowed |-> Some({AttrCn}), denied |-> {}]

(***************************************************************************)
(* Attribute rules: rows whose rules have several allow and deny rules in  *)
(* one group, empty attribute lists, unknown actions and rule types.       *)
(***************************************************************************)
RulesUserDns == {DnPAX}

RulesRuleSets ==
    {NoRules,
     <<AttrRule("user", "read", "allow", <<AttrCnUpper>>),
       AttrRule("user", "read", "allow", <<AttrSn>>),
       AttrRule("user", "read", "deny", <<AttrSn>>)>>,
     <<AttrRule("user", "read", "allow", <<>>)>>,
     <<AttrRule("user", "write", "deny", <<AttrCn>>),
       AttrRule("group", "read", "allow", <<AttrCn>>)>>,
     <<AttrRule("user", "delete", "allow", <<AttrCn>>)>>,
     <<AttrRule("user", "delete", "allow", <<AttrCn>>),
       AttrRule("user", "read", "deny", <<AttrCnUpper>>),
       AttrRule("user", "write", "allow", <<AttrSn>>)>>,
     <<AttrRule("user", "read", "audit", <<AttrCn>>)>>}

RulesRows ==
    {Row({0}, {}, sc[1], Subtree, FALSE, sc[2], 0, rules) :
        sc \in {<<DnAX, FALSE>>, <<<<>>, FALSE>>, <<<<>>, TRUE>>}, rules \in RulesRuleSets}

RulesObjectTypes == {"user", "group"}

InitRules == InitWith(RulesUserDns)

NextRules ==
    \/ PushRow(RulesRows)
    \/ Compile
    \/ CheckAttribute({DnQAX}, {{0}}, RulesObjectTypes, {"read", "write"}, {AttrCn, AttrSn})

SpecRules == InitRules /\ [][NextRules]_vars

\* The rows compile makes a scoped entry of, as positions in rows.
ScopedRowPositions == {k \in DOMAIN rows : ~ClaimedGlobal(rows[k])}

\* The row the j-th entry pushed by compile comes from.
RowOfEntry(j) == rows[NthPosition(ScopedRowPositions, j)]

\* The read or write filter of an object type in a map of attribute ACLs,
\* allow_all when the map has no entry for the object type.
SideOf(attr_acls, object_type, action) ==
    IF object_type \in DOMAIN attr_acls
    THEN IF action = "write" THEN attr_acls[object_type].write ELSE attr_acls[object_type].read
    ELSE [allowed |-> <<>>, denied |-> {}]

\* The filter the rules of one row give for an object type and an action.
ExpectedSide(rules, object_type, action) ==
    LET group   == {i \in DOMAIN rules :
                      rules[i].object_type = object_type /\ rules[i].action = action}
        allows  == {i \in group : rules[i].rule_type = "allow"}
        denies  == {i \in group : rules[i].rule_type = "deny"}
        NamesOf(I) == UNION {{to_ascii_lowercase(rules[i].attributes[j]) :
                                 j \in DOMAIN rules[i].attributes} : i \in I}
    IN  [allowed |-> IF allows # {} THEN <<NamesOf(allows)>> ELSE <<>>,
         denied  |-> NamesOf(denies)]

\* The attribute ACLs compiled from the rules of a row are as the rules say.
CompiledAsRulesSay(attr_acls, rules) ==
    \A object_type \in RulesObjectTypes :
        /\ \A action \in {"read", "write"} :
              SideOf(attr_acls, object_type, action)
                  = ExpectedSide(rules, object_type, action)
        /\ (\E i \in DOMAIN rules : rules[i].object_type = object_type)
              => object_type \in DOMAIN attr_acls

\* C17: the filter compiled from the rules of one row for an object type and
\* the action "read" or "write" has for whitelist the union of the (lower-
\* cased) attributes of the allow rules of the group when there is at least
\* one, none otherwise, and for denied set the union of the attributes of the
\* deny rules; the side of an object type that has no rules is allow_all.
C17_FiltersCompiledFromRules ==
    (pc # "load" /\ ctor.via = "compile") =>
        /\ \A j \in DOMAIN ctor.scoped :
              CompiledAsRulesSay(ctor.scoped[j].attr_acls, RowOfEntry(j).attr_rules)
        /\ \A i \in DOMAIN acl.scoped : Occurrences(ctor.scoped, acl.scoped[i]) > 0
        /\ (Len(rows) = 1 /\ ClaimedGlobal(rows[1]) /\ ~rows[1].deny) =>
              CompiledAsRulesSay(acl.global_attr_acls, rows[1].attr_rules)

\* Two allow rules and a deny rule in one group, and a single allow rule with
\* no attributes in another row.
C17_Witness ==
    /\ pc = "ready"
    /\ ctor.via = "compile"
    /\ Len(acl.scoped) = 2
    /\ acl.scoped[1].attr_acls =
          [t \in {"user"} |->
              [read  |-> [allowed |-> <<{AttrCn, AttrSn}>>, denied |-> {AttrSn}],
               write |-> [allowed |-> <<>>, denied |-> {}]]]
    /\ acl.scoped[2].attr_acls =
          [t \in {"user"} |->
              [read  |-> [allowed |-> <<{}>>, denied |-> {}],
               write |-> [allowed |-> <<>>, denied |-> {}]]]

\* A row without its rules whose action is neither "read" nor "write".
StripUnknownActions(row) ==
    [row EXCEPT !.attr_rules =
        SelectSeq(row.attr_rules, LAMBDA r : r.action \in {"read", "write"})]

HasOnlyUnknownActions(rules, object_type) ==
    /\ \E i \in DOMAIN rules : rules[i].object_type = object_type
    /\ \A i \in DOMAIN rules :
          rules[i].object_type = object_type => rules[i].action \notin {"read", "write"}

\* C19: compile gives, with the rules whose action is neither "read" nor
\* "write", the bitmaps, the entries and the read and write filters it gives
\* without them; an object type that has only such rules has allow_all on
\* both sides; check_attribute answers the same.
C19_UnknownActionIgnored ==
    (pc # "load" /\ ctor.via = "compile") =>
        LET stripped == compile(user_dn, [k \in DOMAIN rows |-> StripUnknownActions(rows[k])])
        IN  /\ stripped.global_allow = acl.global_allow
            /\ stripped.global_deny = acl.global_deny
            /\ Len(stripped.scoped) = Len(acl.scoped)
            /\ \A i \in DOMAIN acl.scoped :
                  /\ [stripped.scoped[i] EXCEPT !.attr_acls = EmptyMap]
                        = [acl.scoped[i] EXCEPT !.attr_acls = EmptyMap]
                  /\ \A object_type \in RulesObjectTypes, action \in {"read", "write"} :
                        SideOf(stripped.scoped[i].attr_acls, object_type, action)
                            = SideOf(acl.scoped[i].attr_acls, object_type, action)
            /\ \A object_type \in RulesObjectTypes, action \in {"read", "write"} :
                  SideOf(stripped.global_attr_acls, object_type, action)
                      = SideOf(acl.global_attr_acls, object_type, action)
            /\ \A j \in DOMAIN ctor.scoped, object_type \in RulesObjectTypes :
                  HasOnlyUnknownActions(RowOfEntry(j).attr_rules, object_type) =>
                      /\ SideOf(ctor.scoped[j].attr_acls, object_type, "read")
                            = [allowed |-> <<>>, denied |-> {}]
                      /\ SideOf(ctor.scoped[j].attr_acls, object_type, "write")
                            = [allowed |-> <<>>, denied |-> {}]
            /\ Returned("check_attribute") =>
                  ret = check_attribute(stripped, call.target, call.required,
                                        call.object_type, call.action, call.attribute)

\* A scoped row with a "delete" rule next to a deny rule and an allow rule,
\* asked to read an attribute the "delete" rules do not name.
C19_Witness ==
    /\ Returned("check_attribute")
    /\ ctor.via = "compile"
    /\ Len(rows) = 2
    /\ rows[1].scope_dn = DnAX /\ rows[2].scope_dn = DnAX
    /\ rows[1].attr_rules = <<AttrRule("user", "delete", "allow", <<AttrCn>>)>>
    /\ rows[2].attr_rules = <<AttrRule("user", "delete", "allow", <<AttrCn>>),
                              AttrRule("user", "read", "deny", <<AttrCnUpper>>),
                              AttrRule("user", "write", "allow", <<AttrSn>>)>>
    /\ call.object_type = "user" /\ call.action = "read" /\ call.attribute = AttrSn
    /\ ret = TRUE

(***************************************************************************)
(* Scope types: rows whose scope_type is "subtree" in two spellings,       *)
(* "base", empty or unknown, compiled and asked whether they match.        *)
(***************************************************************************)
ScopeUserDns == {DnPAX}

ScopeTypes == {Subtree, SubtreeUpper, Base, OneLevel, <<>>}

ScopeRows ==
    {Row({0}, {}, DnAXUpper, scope_type, FALSE, FALSE, -1, NoRules) :
        scope_type \in ScopeTypes}
    \cup {Row({0}, {0, 63}, DnPAXUpper, scope_type, TRUE, TRUE, 1, NoRules) :
        scope_type \in ScopeTypes}
    \cup {Row({0}, {}, <<>>, Subtree, FALSE, FALSE, 0, NoRules)}

ScopeTargets == {DnAX, DnPAXUpper, DnQAX}

InitScope == InitWith(ScopeUserDns)

NextScope ==
    \/ PushRow(ScopeRows)
    \/ Compile
    \/ EvaluatorMatches(ScopeTargets)

SpecScope == InitScope /\ [][NextScope]_vars

\* The string has no ASCII upper-case letter.
HasNoUpper(s) == \A i \in DOMAIN s : s[i] \notin DOMAIN LowerOfUpper

\* C18: compile pushes one entry per scoped row, none rejected, with dn_lower
\* the scope_dn in lower case, subtree true iff scope_type is "subtree" up to
\* ASCII case, and self_only, deny, priority and the bitmap as in the row; an
\* entry from any other scope_type, unknown or empty, matches as a base
\* entry: only the target equal to dn_lower.
C18_ScopedRowCompiled ==
    (pc # "load" /\ ctor.via = "compile") =>
        /\ Len(ctor.scoped) = Cardinality(ScopedRowPositions)
        /\ Len(acl.scoped) = Cardinality(ScopedRowPositions)
        /\ \A j \in DOMAIN ctor.scoped :
              LET row   == RowOfEntry(j)
                  entry == ctor.scoped[j]
              IN  /\ SameName(entry.dn_lower, row.scope_dn) /\ HasNoUpper(entry.dn_lower)
                  /\ entry.subtree = SameName(row.scope_type, Subtree)
                  /\ entry.self_only = row.self_only
                  /\ entry.deny = row.deny
                  /\ entry.priority = row.priority
                  /\ entry.permissions = RowBitmap(row)
                  /\ Occurrences(acl.scoped, entry) = Occurrences(ctor.scoped, entry)
        /\ (Returned("evaluator_matches") /\ ~acl.scoped[call.index].subtree) =>
              ret = /\ TargetLower = acl.scoped[call.index].dn_lower
                    /\ acl.scoped[call.index].self_only => TargetIsSelf

\* A row with an unknown scope_type asked about an entry below its scope DN.
C18_Witness ==
    /\ Returned("evaluator_matches")
    /\ ctor.via = "compile"
    /\ Len(rows) = 2
    /\ rows[1].scope_type = <<>> /\ rows[1].self_only
    /\ rows[2].scope_type = OneLevel /\ rows[2].scope_dn = DnAXUpper
    /\ acl.scoped[1] = [dn_lower |-> DnAX, subtree |-> FALSE, self_only |-> FALSE,
                         deny |-> FALSE, priority |-> -1, permissions |-> {0},
                         attr_acls |-> EmptyMap]
    /\ acl.scoped[2].permissions = {0, 64, 127}
    /\ call.index = 1 /\ call.target = DnQAX
    /\ ret = FALSE

(***************************************************************************)
(* Letter case of DNs: a principal DN, scope DNs and targets authored in   *)
(* mixed case, queried through every method that takes a target DN.        *)
(***************************************************************************)
CaseUserDns == {DnPAXUpper}

CaseScopes == {<<DnAXUpper, FALSE>>, <<DnPAX, TRUE>>, <<<<>>, FALSE>>}

\* A deny row, an allow row, and an allow row that denies reading cn.
CaseKinds ==
    {<<TRUE, NoRules>>, <<FALSE, NoRules>>,
     <<FALSE, <<AttrRule("user", "read", "deny", <<AttrCn>>)>>>>}

CaseRows ==
    {Row({0}, {}, sc[1], Subtree, sc[2], kind[1], 0, kind[2]) :
        sc \in CaseScopes, kind \in CaseKinds}

CaseTargets == {DnPAXUpper, DnQAX, DnAXUpper}

InitCase == InitWith(CaseUserDns)

NextCase ==
    \/ PushRow(CaseRows)
    \/ Compile
    \/ EffectivePermissions(CaseTargets)
    \/ Check(CaseTargets, {{0}})
    \/ CheckAttribute(CaseTargets, {{0}}, {"user"}, {"read"}, {AttrCn, AttrSn})
    \/ IsSelf(CaseTargets)
    \/ UserDn

SpecCase == InitCase /\ [][NextCase]_vars

\* What the method of the call returns on compile(dn, rs) for a target.
AnswerOn(dn, rs, target) ==
    LET an_acl == compile(dn, rs)
    IN  CASE call.op = "effective_permissions" -> effective_permissions(an_acl, target)
          [] call.op = "check" -> check(an_acl, target, call.required)
          [] call.op = "check_attribute" ->
                 check_attribute(an_acl, target, call.required, call.object_type,
                                 call.action, call.attribute)
          [] call.op = "is_self" -> is_self(an_acl, target)

\* The rows with the scope_dn of row k respelled, and with every scope_dn
\* respelled by Respell.
RowsWithScope(k, scope_dn) == [rows EXCEPT ![k].scope_dn = scope_dn]

RowsRespelled(Respell(_)) ==
    [k \in DOMAIN rows |-> [rows[k] EXCEPT !.scope_dn = Respell(rows[k].scope_dn)]]

\* C20: check, effective_permissions, check_attribute and is_self on a
\* compiled ACL return the same for every respelling, in ASCII letter case,
\* of the target DN, of the principal DN given to compile and of the
\* scope_dn of a row, one at a time and all together; user_dn() returns the
\* principal DN as it was given.
C20_DnCaseInsensitive ==
    (pc = "returned" /\ ctor.via = "compile") =>
        IF call.op = "user_dn"
        THEN ret = user_dn
        ELSE /\ \A target \in CaseVariants(call.target) :
                   AnswerOn(user_dn, rows, target) = ret
             /\ \A dn \in CaseVariants(user_dn) :
                   AnswerOn(dn, rows, call.target) = ret
             /\ \A k \in DOMAIN rows : \A scope_dn \in CaseVariants(rows[k].scope_dn) :
                   AnswerOn(user_dn, RowsWithScope(k, scope_dn), call.target) = ret
             /\ AnswerOn(ToUpper(user_dn), RowsRespelled(ToUpper), ToUpper(call.target)) = ret
             /\ AnswerOn(to_ascii_lowercase(user_dn), RowsRespelled(to_ascii_lowercase),
                         to_ascii_lowercase(call.target)) = ret

\* The principal's own entry, spelled unlike the DN given to compile and
\* unlike the scope_dn of a self_only row that grants the bit.
C20_Witness ==
    /\ Returned("effective_permissions")
    /\ ctor.via = "compile"
    /\ user_dn = DnPAXUpper
    /\ Len(rows) = 1
    /\ rows[1].scope_dn = DnPAX /\ rows[1].self_only /\ ~rows[1].deny
    /\ call.target = DnPAXUpper
    /\ ret = {0}

(***************************************************************************)
(* Bitmaps: two bitmaps over the lowest and highest bit of each half,      *)
(* projected to halves, rebuilt from halves and combined.                  *)
(***************************************************************************)
\* The bits the bitmaps of this specification are drawn over.
BitmapBits == {0, HalfWidth - 1, HalfWidth, BitWidth - 1}

Bitmaps == SUBSET BitmapBits

\* i64 values, as bit patterns: zero, one, i64::MIN and -1 among them.
BitmapHalves == SUBSET {0, 1, HalfWidth - 1}

BitmapPositions == {0, HalfWidth - 1, HalfWidth, BitWidth - 1, BitWidth, 255}

InitBitmap ==
    /\ pc = "ready"
    /\ user_dn = DnPAX
    /\ rows = <<>>
    /\ ctor = NoCtor
    /\ acl = UserAcl_empty(user_dn)
    /\ call = NoCall
    /\ ret = FALSE
    /\ attr_filter = allow_all
    /\ other_filter = allow_all
    /\ bitmap \in Bitmaps
    /\ other_bitmap \in Bitmaps

NextBitmap ==
    \/ FromBit(BitmapPositions)
    \/ FromHalves(BitmapHalves)
    \/ ToHalves
    \/ BitmapHas
    \/ BitmapHasAny
    \/ BitmapUnion
    \/ BitmapIntersection
    \/ BitmapSubtract

SpecBitmap == InitBitmap /\ [][NextBitmap]_vars

\* Bit i of a bitmap, or of the pattern of a half, is set.
BitSet(x, i) == i \in x

\* C21: the halves projection is a bijection. to_halves followed by
\* from_halves gives the bitmap back, from_halves followed by to_halves gives
\* the two halves back, bit i < 64 of the bitmap is bit i of the low half and
\* bit i >= 64 is bit i - 64 of the high half, and the low (high) half is
\* negative exactly when bit 63 (bit 127) of the bitmap is set.
C21_HalvesBijection ==
    /\ call.op = "to_halves" =>
          /\ from_halves(ret[1], ret[2]) = bitmap
          /\ \A i \in 0..(HalfWidth - 1) :
                /\ BitSet(bitmap, i) <=> BitSet(ret[1], i)
                /\ BitSet(bitmap, i + HalfWidth) <=> BitSet(ret[2], i)
          /\ i64_is_negative(ret[1]) <=> BitSet(bitmap, HalfWidth - 1)
          /\ i64_is_negative(ret[2]) <=> BitSet(bitmap, BitWidth - 1)
    /\ call.op = "from_halves" =>
          /\ to_halves(ret) = call.required
          /\ ret \subseteq 0..(BitWidth - 1)
          /\ \A i \in 0..(HalfWidth - 1) :
                /\ BitSet(ret, i) <=> BitSet(call.required[1], i)
                /\ BitSet(ret, i + HalfWidth) <=> BitSet(call.required[2], i)

\* The bitmap with only bit 63 set was projected to a negative low half and a
\* zero high half.
C21_Witness ==
    /\ call.op = "to_halves"
    /\ bitmap = {HalfWidth - 1}
    /\ i64_is_negative(ret[1])
    /\ ret[2] = {}

\* C22: the bitmap algebra. union is commutative and has the empty bitmap as
\* unit, a bitmap minus itself is empty, a.has(b) iff a union b = a iff every
\* bit of b is set in a, a.subtract(b) has exactly the bits of a that are not
\* in b, and a.has_any(b) iff a and b share a bit.
C22_BitmapAlgebra ==
    /\ call.op = "union" =>
          /\ ret = union(other_bitmap, bitmap)
          /\ other_bitmap = EMPTY => ret = bitmap
    /\ call.op = "subtract" =>
          /\ other_bitmap = bitmap => ret = EMPTY
          /\ \A i \in 0..(BitWidth - 1) :
                BitSet(ret, i) <=> (BitSet(bitmap, i) /\ ~BitSet(other_bitmap, i))
    /\ call.op = "has" =>
          /\ ret <=> (union(bitmap, other_bitmap) = bitmap)
          /\ ret <=> \A i \in 0..(BitWidth - 1) :
                        BitSet(other_bitmap, i) => BitSet(bitmap, i)
    /\ call.op = "has_any" =>
          (ret <=> \E i \in 0..(BitWidth - 1) :
                      BitSet(bitmap, i) /\ BitSet(other_bitmap, i))

\* A bitmap was subtracted from one it overlaps without covering or being
\* covered.
C22_Witness ==
    /\ call.op = "subtract"
    /\ has_any(bitmap, other_bitmap)
    /\ ~has(bitmap, other_bitmap)
    /\ ~has(other_bitmap, bitmap)
    /\ ret # EMPTY

SerdeUserDns == {DnPAXUpper}

SerdeRuleSets ==
    {NoRules,
     <<AttrRule("user", "read", "allow", <<>>)>>,
     <<AttrRule("user", "read", "allow", <<AttrCnUpper, AttrSn>>),
       AttrRule("user", "write", "deny", <<AttrSn>>)>>,
     <<AttrRule("group", "read", "deny", <<AttrCn, AttrSn>>)>>}

\* Global rows carry bits of both halves; scoped rows come with a positive
\* and a negative priority.
SerdeRows ==
    {Row({0, 63}, {0, 63}, <<>>, Subtree, FALSE, deny, 0, rules) :
        deny \in BOOLEAN, rules \in SerdeRuleSets}
    \cup {Row({1}, {63}, DnAX, Subtree, FALSE, FALSE, 1, rules) : rules \in SerdeRuleSets}
    \cup {Row({0}, {0}, DnAX, Base, FALSE, TRUE, -1, rules) : rules \in SerdeRuleSets}

SerdeTargets == {DnAXUpper, DnQAX, DnX}

SerdeRequireds == {{}, {0}, {1, 127}}

SerdeLists == {<<AttrCnUpper, AttrSn, AttrCn>>}

InitSerde == InitWith(SerdeUserDns)

NextSerde ==
    \/ PushRow(SerdeRows)
    \/ Compile
    \/ ToJson
    \/ FromJson

SpecSerde == InitSerde /\ [][NextSerde]_vars

\* Two UserAcl values answer every query of the pool alike.
Agree(u, v) ==
    \A target \in SerdeTargets :
        /\ effective_permissions(u, target) = effective_permissions(v, target)
        /\ \A required \in SerdeRequireds :
              /\ check(u, target, required) = check(v, target, required)
              /\ \A object_type \in {"user", "group"}, action \in {"read", "write"} :
                    /\ \A attribute \in {AttrCn, AttrSn} :
                          check_attribute(u, target, required, object_type, action,
                                          attribute)
                              = check_attribute(v, target, required, object_type,
                                                action, attribute)
                    /\ \A attributes \in SerdeLists :
                          filter_attributes(u, target, required, object_type, action,
                                            attributes)
                              = filter_attributes(v, target, required, object_type,
                                                  action, attributes)

\* C24: serialization round-trips. Reading back the JSON written for a
\* compiled UserAcl succeeds and gives a value with the same user DN, the
\* same global bitmaps, the same attribute filters and the same scoped
\* entries in the same order, whose check, check_attribute, filter_attributes
\* and effective_permissions agree with those of the original.
C24_SerializationRoundTrips ==
    (Returned("from_json") /\ ~call.is_self) =>
        /\ ret.kind = "ok"
        /\ ret.value.user_dn = acl.user_dn
        /\ ret.value.global_allow = acl.global_allow
        /\ ret.value.global_deny = acl.global_deny
        /\ ret.value.global_attr_acls = acl.global_attr_acls
        /\ ret.value.scoped = acl.scoped
        /\ Agree(ret.value, acl)

\* An ACL with bit 127 allowed globally and a scoped entry of negative
\* priority whose read filter on "user" is an empty whitelist was read back.
C24_Witness ==
    /\ Returned("from_json")
    /\ ~call.is_self
    /\ ret.kind = "ok"
    /\ (BitWidth - 1) \in acl.global_allow
    /\ Len(acl.scoped) = 1
    /\ acl.scoped[1].priority < 0
    /\ "user" \in DOMAIN acl.scoped[1].attr_acls
    /\ acl.scoped[1].attr_acls["user"].read = deny_all

(***************************************************************************)
(* Threads: two threads that query one shared UserAcl, their loops         *)
(* interleaved entry by entry.                                             *)
(***************************************************************************)
Threads == {1, 2}

ThreadOps ==
    {"check", "evaluate", "check_attribute", "filter_attributes",
     "effective_permissions", "is_self"}

ThreadTargets == {DnQAX, DnPAXUpper}

ThreadRows ==
    {Row({0}, {}, <<>>, Subtree, FALSE, FALSE, 0, NoRules),
     Row({0}, {0}, DnAX, Subtree, FALSE, FALSE, 0,
         <<AttrRule("user", "read", "allow", <<AttrCnUpper>>)>>),
     Row({0}, {}, DnPAX, Base, FALSE, TRUE, 1,
         <<AttrRule("user", "read", "deny", <<AttrCn>>),
           AttrRule("", "read", "deny", <<AttrCn, AttrSn>>)>>)}

InitThreads ==
    /\ pc = "load"
    /\ user_dn = DnPAX
    /\ rows = <<>>
    /\ ctor = NoCtor
    /\ acl = UserAcl_empty(user_dn)
    /\ call = [t \in Threads |-> NoCall]
    /\ ret = [t \in Threads |-> IdleFrame]
    /\ attr_filter = allow_all
    /\ other_filter = allow_all
    /\ bitmap = EMPTY
    /\ other_bitmap = EMPTY

NextThreads ==
    \/ PushRow(ThreadRows)
    \/ Compile
    \/ \E t \in Threads : ThreadCall(t, ThreadOps, ThreadTargets, {AttrCnUpper})
    \/ \E t \in Threads : ThreadStep(t)
    \/ \E t \in Threads : ThreadReturn(t)

SpecThreads == InitThreads /\ [][NextThreads]_vars

\* What the call of thread t returns when nothing runs beside it.
RunAlone(t) ==
    LET c == call[t]
    IN  CASE c.op = "check" -> {check(acl, c.target, c.required)}
          [] c.op = "evaluate" -> evaluate(acl, c.target, c.required)
          [] c.op = "check_attribute" ->
                {check_attribute(acl, c.target, c.required, c.object_type, c.action,
                                 c.attribute)}
          [] c.op = "filter_attributes" ->
                {filter_attributes(acl, c.target, c.required, c.object_type, c.action,
                                   c.attributes)}
          [] c.op = "effective_permissions" -> {effective_permissions(acl, c.target)}
          [] c.op = "is_self" -> {is_self(acl, c.target)}

\* C25: evaluation is read-only and thread-safe. While threads call check,
\* evaluate, check_attribute, filter_attributes, effective_permissions and
\* is_self on one shared UserAcl, interleaved in any way, the UserAcl stays
\* the value compile built, and every call that has returned has returned
\* what it returns when run alone.
C25_ReadOnlyAndThreadSafe ==
    pc = "ready" =>
        /\ acl = compile(user_dn, rows)
        /\ \A t \in Threads : ret[t].at = "done" => ret[t].value \in RunAlone(t)

\* A check_attribute call returned while the other thread was in the middle
\* of its loop over two entries.
C25_Witness ==
    /\ pc = "ready"
    /\ Len(acl.scoped) = 2
    /\ ret[1].at = "done"
    /\ call[1].op = "check_attribute"
    /\ ret[2].at = "loop"
    /\ ret[2].index = 2

(***************************************************************************)
(* Verdicts: rows whose attribute rules are on the object type evaluate    *)
(* resolves its exposed filter for (the empty string), queried with        *)
(* evaluate.                                                               *)
(***************************************************************************)
VerdictUserDns == {DnPAX}

VerdictRuleSets ==
    {NoRules,
     <<AttrRule("", "read", "deny", <<AttrCn>>)>>,
     <<AttrRule("", "read", "deny", <<AttrCnUpper, AttrSn>>)>>,
     <<AttrRule("", "read", "allow", <<AttrCn, AttrMail>>),
       AttrRule("", "write", "deny", <<AttrMail>>)>>}

VerdictRows ==
    {Row({0}, {}, scope_dn, Subtree, FALSE, deny, 0, rules) :
        scope_dn \in {<<>>, DnAX}, deny \in BOOLEAN, rules \in VerdictRuleSets}

VerdictTargets == {DnQAX, DnX}

VerdictRequireds == {{}, {0}, {1}}

InitVerdict == InitWith(VerdictUserDns)

NextVerdict ==
    \/ PushRow(VerdictRows)
    \/ Compile
    \/ Evaluate(VerdictTargets, VerdictRequireds)

SpecVerdict == InitVerdict /\ [][NextVerdict]_vars

\* The value read back from the JSON written for acl by a hasher.
DeserializedCopy(hasher) == from_json(to_json(acl, hasher).value).value

\* C26: verdicts are deterministic. Whatever verdict evaluate has returned,
\* evaluate on an equal UserAcl (the value itself or a deserialized copy,
\* whose sets iterate in their own order) with the same target and the same
\* required bitmap returns that verdict, flag and exposed filter alike.
C26_VerdictsDeterministic ==
    Returned("evaluate") =>
        /\ \A verdict \in evaluate(acl, call.target, call.required) : verdict = ret
        /\ \A hasher \in {0, 1} :
              \A verdict \in evaluate(DeserializedCopy(hasher), call.target,
                                      call.required) : verdict = ret

\* C27: the filter exposed by evaluate, for an empty required bitmap and for
\* a non-empty one alike, is the filter the attribute-level check resolves
\* for the read action on the object type "": every name in the read denied
\* set, for that object type, of a scoped deny entry that matches the target
\* is denied by the exposed filter.
C27_ExposedFilterDeniesAll ==
    Returned("evaluate") =>
        /\ ret.attr_filter = resolve_attr_filter_for_type(acl, call.target, "", "read")
        /\ \A i \in DOMAIN acl.scoped :
              (/\ acl.scoped[i].deny
               /\ EntryApplies(acl.scoped[i])
               /\ "" \in DOMAIN acl.scoped[i].attr_acls) =>
                    \A name \in acl.scoped[i].attr_acls[""].read.denied :
                        /\ name \in ret.attr_filter.denied
                        /\ ~is_attribute_permitted(ret.attr_filter, name)

(***************************************************************************)
(* Justification of granted bits (checked on the permission-folding runs)  *)
(***************************************************************************)
\* Bit b is carried by the global allow bitmap or by an allow entry of acl
\* that matches the target of the call.
Justified(b) ==
    \/ b \in acl.global_allow
    \/ \E i \in DOMAIN acl.scoped :
          /\ ~acl.scoped[i].deny
          /\ EntryApplies(acl.scoped[i])
          /\ b \in acl.scoped[i].permissions

\* C28: no permission is granted without a rule that justifies it. Every bit
\* of effective_permissions(target) is in global_allow or in the bitmap of an
\* allow entry that matches the target; check is false whenever the required
\* bitmap has a bit that no such rule carries, so an empty ACL refuses every
\* non-empty requirement; and both calls return a value (a bitmap, a
\* boolean) on every input.
C28_NoGrantWithoutRule ==
    /\ Returned("effective_permissions") =>
          /\ ret \in SUBSET (0..(BitWidth - 1))
          /\ \A b \in ret : Justified(b)
    /\ Returned("check") =>
          /\ ret \in BOOLEAN
          /\ (\E b \in call.required : ~Justified(b)) => ret = FALSE
          /\ (acl = UserAcl_empty(user_dn) /\ call.required # EMPTY) => ret = FALSE

\* check refused a requirement of which one bit is carried by a matching
\* allow rule and another bit by none.
C28_Witness ==
    /\ Returned("check")
    /\ ret = FALSE
    /\ \E b \in call.required : Justified(b)
    /\ \E b \in call.required : ~Justified(b)
    /\ \A i \in DOMAIN acl.scoped : ~acl.scoped[i].deny
    /\ acl.global_deny = EMPTY

(***************************************************************************)
(* Priorities of attribute rules: allow and deny rows of different         *)
(* priorities that whitelist and deny the same names, queried with         *)
(* check_attribute.                                                        *)
(***************************************************************************)
PriorityUserDns == {DnPAX}

PriorityRuleSets ==
    {<<AttrRule("user", "read", "allow", <<AttrCn, AttrSn>>)>>,
     <<AttrRule("user", "read", "deny", <<AttrCnUpper>>)>>,
     <<AttrRule("user", "write", "deny", <<AttrCn>>),
       AttrRule("user", "write", "allow", <<AttrCn>>)>>}

PriorityKinds == {<<FALSE, -1>>, <<FALSE, 1>>, <<TRUE, 0>>}

PriorityRows ==
    {Row({0}, {}, scope_dn, Subtree, FALSE, kind[1], kind[2], rules) :
        scope_dn \in {<<>>, DnAX}, kind \in PriorityKinds, rules \in PriorityRuleSets}

InitPriority == InitWith(PriorityUserDns)

NextPriority ==
    \/ PushRow(PriorityRows)
    \/ Compile
    \/ CheckAttribute({DnQAX, DnX}, {{}, {0}}, {"user"}, {"read", "write"},
                      {AttrCnUpper, AttrSn})

SpecPriority == InitPriority /\ [][NextPriority]_vars

\* The attribute of the call is in the denied set of the global filter for
\* the object type and action of the call, or in that of the same-action
\* filter of a scoped entry that matches the target.
DeniedSomewhere ==
    LET name == to_ascii_lowercase(call.attribute)
    IN  \/ name \in GlobalFilterOfCall.denied
        \/ \E i \in Contributors : name \in FilterOfContributor(i).denied

\* A matching allow entry of higher priority than entry i whitelists the
\* attribute of the call.
WhitelistedLater(i) ==
    \E k \in Contributors :
        /\ ~acl.scoped[k].deny
        /\ acl.scoped[k].priority > acl.scoped[i].priority
        /\ FilterOfContributor(k).allowed # None
        /\ to_ascii_lowercase(call.attribute) \in FilterOfContributor(k).allowed[1]

\* C29: attribute denials are independent of priority. When the attribute is
\* in the denied set of the global filter for the object type and action, or
\* of the same-action filter of a scoped entry, allow or deny, that matches
\* the target, check_attribute is false, whatever the priorities of the
\* entries and whether or not a matching allow entry of higher priority
\* whitelists the attribute.
C29_DenialsIgnorePriority ==
    Returned("check_attribute") => (DeniedSomewhere => ret = FALSE)

\* The object-level check passed, a matching deny entry denies the
\* attribute, a matching allow entry of higher priority whitelists it, and
\* check_attribute answered false.
C29_Witness ==
    /\ Returned("check_attribute")
    /\ check(acl, call.target, call.required)
    /\ \E i \in Contributors :
          /\ acl.scoped[i].deny
          /\ to_ascii_lowercase(call.attribute) \in FilterOfContributor(i).denied
          /\ WhitelistedLater(i)
    /\ ret = FALSE

(***************************************************************************)
(* Query strings: check_attribute and filter_attributes called with        *)
(* actions and object types spelled as the rules spell them and otherwise. *)
(***************************************************************************)
ActionUserDns == {DnPAX}

ActionRuleSets ==
    {<<AttrRule("user", "read", "allow", <<AttrCn>>),
       AttrRule("user", "write", "deny", <<AttrCn>>)>>,
     <<AttrRule("user", "write", "allow", <<AttrSn>>)>>,
     <<AttrRule("user", "read", "deny", <<AttrSn>>)>>}

ActionRows ==
    {Row({0}, {}, scope_dn, Subtree, FALSE, deny, 0, rules) :
        scope_dn \in {<<>>, DnAX}, deny \in BOOLEAN, rules \in ActionRuleSets}

QueryActionStrings == {"read", "write", "WRITE", "delete", ""}

QueryObjectTypes == {"user", "User", "group"}

InitAction == InitWith(ActionUserDns)

NextAction ==
    \/ PushRow(ActionRows)
    \/ Compile
    \/ CheckAttribute({DnQAX}, {{0}}, QueryObjectTypes, QueryActionStrings,
                      {AttrCn, AttrSn})
    \/ FilterAttributes({DnQAX}, {{0}}, QueryObjectTypes, QueryActionStrings, {AttrCn})

SpecAction == InitAction /\ [][NextAction]_vars

\* The read or the write filter of an ObjectAttributeAcl, named outright.
SideOfAcl(obj_acl, side) == IF side = "write" THEN obj_acl.write ELSE obj_acl.read

\* The names denied, and the whitelists merged, on one side for an object
\* type spelled exactly as given: those of the global filter and of the
\* entries that match the target of the call.
SideContributors(object_type) ==
    {i \in DOMAIN acl.scoped :
        EntryApplies(acl.scoped[i]) /\ object_type \in DOMAIN acl.scoped[i].attr_acls}

SideDenied(object_type, side) ==
    (IF object_type \in DOMAIN acl.global_attr_acls
     THEN SideOfAcl(acl.global_attr_acls[object_type], side).denied
     ELSE {})
    \cup UNION {SideOfAcl(acl.scoped[i].attr_acls[object_type], side).denied :
                   i \in SideContributors(object_type)}

SideWhitelists(object_type, side) ==
    (IF /\ object_type \in DOMAIN acl.global_attr_acls
        /\ SideOfAcl(acl.global_attr_acls[object_type], side).allowed # None
     THEN {SideOfAcl(acl.global_attr_acls[object_type], side).allowed[1]}
     ELSE {})
    \cup {SideOfAcl(acl.scoped[i].attr_acls[object_type], side).allowed[1] :
             i \in {k \in SideContributors(object_type) :
                       /\ ~acl.scoped[k].deny
                       /\ SideOfAcl(acl.scoped[k].attr_acls[object_type], side).allowed
                              # None}}

SidePermits(object_type, side, attribute) ==
    LET name == to_ascii_lowercase(attribute)
    IN  /\ name \notin SideDenied(object_type, side)
        /\ SideWhitelists(object_type, side) # {} =>
              name \in UNION SideWhitelists(object_type, side)

\* The side the claim assigns to an action string.
SideOfAction(action) == IF action = "write" THEN "write" ELSE "read"

\* No row has a rule on the object type, spelled exactly so.
HasNoRules(object_type) ==
    \A k \in DOMAIN rows : \A j \in DOMAIN rows[k].attr_rules :
        rows[k].attr_rules[j].object_type # object_type

\* C30: at query time the action selects the filters by exact match with
\* "write". check_attribute and filter_attributes use the write filters,
\* global and of the matching entries, only for the action "write" and the
\* read filters for every other string ("WRITE", an unknown action, the
\* empty string); the object type is matched exactly, and an object type
\* that no rule names resolves to allow_all.
C30_ActionSelectsByExactMatch ==
    /\ Returned("check_attribute") =>
          /\ ret = (/\ check(acl, call.target, call.required)
                    /\ SidePermits(call.object_type, SideOfAction(call.action),
                                   call.attribute))
          /\ HasNoRules(call.object_type) =>
                ret = check(acl, call.target, call.required)
    /\ Returned("filter_attributes") =>
          ret = IF check(acl, call.target, call.required)
                THEN SelectSeq(call.attributes,
                               LAMBDA a : SidePermits(call.object_type,
                                                      SideOfAction(call.action), a))
                ELSE <<>>

\* check_attribute was asked with the action "WRITE" about a name the read
\* filters permit and the write filters deny, for an object type spelled as
\* the rules spell it, and answered true.
C30_Witness ==
    /\ Returned("check_attribute")
    /\ call.action = "WRITE"
    /\ call.object_type = "user"
    /\ SidePermits("user", "read", call.attribute)
    /\ ~SidePermits("user", "write", call.attribute)
    /\ ret = TRUE

====
